---- MODULE Spec2Model ----
(***************************************************************************)
(* Notification engine of the social-network backend                       *)
(* (app/services/notification_service.py), the cache wrapper it talks to   *)
(* (app/services/redis_service.py) and the comment-creation handler that   *)
(* calls it (app/api/comments.py).                                         *)
(*                                                                         *)
(* Spec     : every service call runs to completion before the next one    *)
(*            starts (sequential callers).                                 *)
(* SpecConc : calls run as asyncio tasks that interleave at their await    *)
(*            points.                                                      *)
(***************************************************************************)
EXTENDS Integers, Sequences, FiniteSets, TLC

\* ------------------------------------------------------------------ bounds
\* The number of calls a run of Spec makes.
MaxCalls == 2
\* The number of calls a run of SpecRead makes.
MaxReadCalls == 4
\* The number of asyncio tasks a run of SpecConc starts.
MaxTasks == 3
\* The number of manager calls a run of SpecWs and SpecRegistry starts.
MaxWsTasks == 4
\* The number of NotificationService objects a run of SpecRealtime constructs.
MaxServices == 3
\* The number of calls a run of SpecLatest makes: more creates than the
\* latest list keeps, and a read.
MaxLatestCalls == 12
\* The number of like, follow and comment calls a run of SpecCache makes.
MaxCacheCalls == 3
\* The number of cache keys a run of SpecCache finds stored.
MaxCachedKeys == 1
\* SpecCleanup: the clock ticks of a day, and the days a run can last
\* beyond the default retention.
DayTicks == 2
MaxExtraDays == 2

\* --------------------------------------------------------- program values
\* Python's None for an optional integer column or argument.
None == 0
\* What RedisService.get returns for a key that holds no value.
Absent == -1
\* ltrim(cache_key, 0, 9): the latest list keeps 10 entries.
LatestKeep == 10
\* The default of cleanup_old_notifications' days parameter.
DefaultDays == 30

\* Three accounts, so that a replier, the author of the comment replied to
\* and the owner of the post can be pairwise distinct; one post.
Users == {1, 2, 3}
Posts == {1}

\* NotificationType (schemas/notification_schema.py).
LIKE == "like"
COMMENT == "comment"
REPLY == "reply"
FOLLOW == "follow"
MENTION == "mention"
SHARE == "share"
SYSTEM == "system"
NotificationType == {LIKE, COMMENT, REPLY, FOLLOW, MENTION, SHARE, SYSTEM}

\* The owner of each post (Post.user_id); posts exist before the run starts.
PostOwner(p) == p

VARIABLES
    notifications,        \* durable store: the committed Notification rows
    next_id,              \* the next primary key of the notifications table
    comments,             \* durable store: the committed Comment rows
    now,                  \* the last value datetime.utcnow() returned
    calls,                \* the number of calls made so far
    unread_count,         \* cache: user:{u}:unread_count, Absent when no value
    latest_notifications, \* cache: user:{u}:latest_notifications (ids, newest first)
    ws_pushes,            \* calls of ws_manager.send_personal_notification, in order
    sink_tasks,           \* email / push tasks handed to the task queue
    last,                 \* the call that completed last, with what it returned
    tasks,                \* SpecConc: the asyncio tasks in flight
    active_connections,   \* WebSocketManager.active_connections of one manager
    next_set,             \* the identity the next set object created gets
    ws_tasks,             \* SpecWs: the manager's calls in flight
    ws_log,               \* per user and channel: connect or disconnect, whichever ran last
    managers,             \* SpecRealtime: the ws_manager of each NotificationService
    realtime,             \* SpecRealtime: envelopes sent, as (channel, notification)
    cache,                \* SpecCache: the entries of the services' cache keys
    likes,                \* durable store: the committed Like rows
    follows,              \* durable store: the committed Follow rows, as pairs
    lock,                 \* WebSocketManager.lock: the task that holds it, or None
    like_count            \* durable store: Comment.like_count, per comment id

\* The state of the connection managers.
ws_vars == <<active_connections, next_set, ws_tasks, ws_log, managers, realtime>>

\* The state of the like, follow and comment services.
kv_vars == <<cache, likes, follows>>

\* The asyncio.Lock of the connection manager and the like counter column
\* of the comments.
aux_vars == <<lock, like_count>>

\* The state of the notification service.
svc_vars == <<notifications, next_id, comments, now, calls, unread_count,
              latest_notifications, ws_pushes, sink_tasks, last, tasks>>

vars == <<notifications, next_id, comments, now, calls, unread_count,
          latest_notifications, ws_pushes, sink_tasks, last, tasks,
          active_connections, next_set, ws_tasks, ws_log, managers, realtime,
          cache, likes, follows, lock, like_count>>

\* ------------------------------------------------------------ RedisService
\* The methods class RedisService defines.  A call of any other name on a
\* RedisService object raises AttributeError at the call site.
RedisMethods == {"set", "get", "delete", "close"}

\* A RedisService that defines every method the services call.
RedisHas_all(m) == TRUE

RedisHas(m) == m \in RedisMethods

\* ------------------------------------------------------------------ world
\* The durable store and the cache as one value, so that a handler is a
\* function from world to world.
World == [rows    |-> notifications,
          next_id |-> next_id,
          unread  |-> unread_count,
          latest  |-> latest_notifications,
          pushes  |-> ws_pushes,
          sinks   |-> sink_tasks]

Apply(w) ==
    /\ notifications' = w.rows
    /\ next_id' = w.next_id
    /\ unread_count' = w.unread
    /\ latest_notifications' = w.latest
    /\ ws_pushes' = w.pushes
    /\ sink_tasks' = w.sinks

\* NotificationCreate (schemas/notification_schema.py): send_email and
\* send_push default to False; every wrapper sets both.
NotificationCreate(receiver, sender, type, post, flags) ==
    [receiver_id |-> receiver, sender_id |-> sender, type |-> type,
     related_post_id |-> post, send_email |-> flags, send_push |-> flags]

\* template["message"].format(sender=sender_name or "Someone", content=content
\* or ""): the template of the type with the sender's name in it, a user
\* standing for the name and None for "Someone"; the system template has no
\* sender in it.  (The content argument is left out of NotificationCreate.)
Message(d) ==
    [template |-> d.type,
     sender |-> IF d.type = SYSTEM THEN None ELSE d.sender_id]

\* Notification(...) of create_notification: is_read False, no read_at.
NewRow(id, d, t) ==
    [id |-> id, receiver_id |-> d.receiver_id, sender_id |-> d.sender_id,
     type |-> d.type, content |-> Message(d),
     related_post_id |-> d.related_post_id,
     is_read |-> FALSE, created_at |-> t, read_at |-> None]

\* self.db.add(notification); await self.db.commit()
DbAddCommit(w, d, t) ==
    [w EXCEPT !.rows = @ \cup {NewRow(w.next_id, d, t)}, !.next_id = @ + 1]

\* redis lpush: the new element goes to the head of the list.
LPush(list, x) == <<x>> \o list

\* redis ltrim(key, 0, n - 1).
LTrim(list, n) == IF Len(list) <= n THEN list ELSE SubSeq(list, 1, n)

\* user:{u}:push_token: nothing in the repository stores it.
PushToken(u) == Absent

\* send_email_notification_async / send_push_notification_async: each
\* catches its own exceptions.  The receiver's email is a non-null column.
Sinks(w, d, id) ==
    LET e == IF d.send_email
             THEN [w EXCEPT !.sinks = @ \cup {[kind |-> "email", id |-> id]}]
             ELSE w
    IN  IF d.send_push /\ RedisHas("get") /\ PushToken(d.receiver_id) # Absent
        THEN [e EXCEPT !.sinks = @ \cup {[kind |-> "push", id |-> id]}]
        ELSE e

\* create_notification after the commit with a list push that succeeds and
\* no trim after it: what C15 rests on.
AfterCommit_untrimmed(w, d, id) ==
    LET r  == d.receiver_id
        w1 == [w EXCEPT !.pushes = Append(@, [user |-> r, id |-> id])]
        w2 == [w1 EXCEPT !.latest[r] = LPush(@, id)]
    IN  IF ~RedisHas("incr") THEN [w |-> w2, raised |-> TRUE]
        ELSE [w |-> Sinks([w2 EXCEPT !.unread[r] = IF @ = Absent THEN 1 ELSE @ + 1],
                          d, id),
              raised |-> FALSE]

\* create_notification after the commit: sender lookup, realtime send, cache
\* list push and trim, counter increment, sinks.  The first step that raises
\* ends it: the except clause rolls back (nothing is pending) and re-raises.
AfterCommit(w, d, id) ==
    LET r  == d.receiver_id
        w1 == [w EXCEPT !.pushes = Append(@, [user |-> r, id |-> id])]
        w2 == [w1 EXCEPT !.latest[r] = LPush(@, id)]
        w3 == [w2 EXCEPT !.latest[r] = LTrim(@, LatestKeep)]
        w4 == [w3 EXCEPT !.unread[r] = IF @ = Absent THEN 1 ELSE @ + 1]
    IN  IF ~RedisHas("lpush") THEN [w |-> w1, raised |-> TRUE]
        ELSE IF ~RedisHas("ltrim") THEN [w |-> w2, raised |-> TRUE]
        ELSE IF ~RedisHas("incr") THEN [w |-> w3, raised |-> TRUE]
        ELSE [w |-> Sinks(w4, d, id), raised |-> FALSE]

\* create_notification(notification_data) at time t: the row is committed
\* first; ret is the new row's id, or None when the call raised.
create_notification(w, d, t) ==
    LET id == w.next_id
        r  == AfterCommit(DbAddCommit(w, d, t), d, id)
    IN  [w |-> r.w, raised |-> r.raised,
         ret |-> IF r.raised THEN None ELSE id]

\* create_notification with a realtime send that does not wait for the
\* commit: what C29 rests on.
create_notification_db_send_first(w, d, t, commit_ok) ==
    IF commit_ok THEN create_notification(w, d, t)
    ELSE [w |-> [w EXCEPT !.pushes =
                    Append(@, [user |-> d.receiver_id, id |-> w.next_id])],
          raised |-> TRUE, ret |-> None]

\* create_notification on a database whose commit can fail: commit_ok tells
\* whether self.db.add / self.db.commit() go through.  When they raise,
\* control is in the except clause before any later statement ran: the
\* pending insert is rolled back and the exception re-raised.
create_notification_db(w, d, t, commit_ok) ==
    IF commit_ok THEN create_notification(w, d, t)
    ELSE [w |-> w, raised |-> TRUE, ret |-> None]

\* result.scalar_one_or_none() of the wrappers' existence query: the rows
\* that match; more than one makes it raise MultipleResultsFound.
ExistingLike(rows, post, liker, owner) ==
    {n \in rows : /\ n.receiver_id = owner
                  /\ n.sender_id = liker
                  /\ n.related_post_id = post
                  /\ n.type = LIKE}

ExistingComment(rows, receiver, commenter, post, type) ==
    {n \in rows : /\ n.receiver_id = receiver
                  /\ n.sender_id = commenter
                  /\ n.related_post_id = post
                  /\ n.type = type}

ExistingFollow(rows, follower, following) ==
    {n \in rows : /\ n.receiver_id = following
                  /\ n.sender_id = follower
                  /\ n.type = FOLLOW}

\* The dedup hit taken as a new notification: unread again.
Refresh_unread(w, n, t) ==
    [w EXCEPT !.rows = (@ \ {n}) \cup
        {[n EXCEPT !.created_at = t, !.is_read = FALSE, !.read_at = None]}]

\* existing.created_at = datetime.utcnow(); commit; refresh.
Refresh(w, n, t) ==
    [w EXCEPT !.rows = (@ \ {n}) \cup {[n EXCEPT !.created_at = t]}]

\* The part the three wrappers share after they resolved the receiver: the
\* existence query, then refresh or create.  An exception anywhere in a
\* wrapper is logged and the wrapper returns None.
RefreshOrCreate(w, existing, d, t) ==
    IF Cardinality(existing) > 1
    THEN [w |-> w, ret |-> None]
    ELSE IF existing # {}
    THEN LET n == CHOOSE n \in existing : TRUE
         IN  [w |-> Refresh(w, n, t), ret |-> n.id]
    ELSE LET r == create_notification(w, d, t)
         IN  [w |-> r.w, ret |-> r.ret]

\* The like wrapper with the liker/owner comparison left out: what C5 rests
\* on for likes.
create_like_notification_unchecked(w, post, liker, owner, t) ==
    RefreshOrCreate(w, ExistingLike(w.rows, post, liker, owner),
                    NotificationCreate(owner, liker, LIKE, post, TRUE), t)

create_like_notification(w, post, liker, owner, t) ==
    IF liker = owner
    THEN [w |-> w, ret |-> None]
    ELSE RefreshOrCreate(w, ExistingLike(w.rows, post, liker, owner),
                         NotificationCreate(owner, liker, LIKE, post, TRUE), t)

create_follow_notification(w, follower, following, t) ==
    IF follower = following
    THEN [w |-> w, ret |-> None]
    ELSE RefreshOrCreate(w, ExistingFollow(w.rows, follower, following),
                         NotificationCreate(following, follower, FOLLOW, None, TRUE), t)

\* select(Comment.user_id).where(Comment.id == parent_comment_id), then
\* scalar_one_or_none(): the bare user_id column of the parent, an int, or
\* None when no such comment exists.
ParentCommentScalar(cmts, parent) ==
    IF \E c \in cmts : c.id = parent
    THEN (CHOOSE c \in cmts : c.id = parent).user_id
    ELSE None

\* parent_comment.user_id is evaluated on that int: an int has no attribute
\* user_id, so the expression raises AttributeError.
IntHasUserId == FALSE

create_comment_notification(w, cmts, comment_id, commenter, post, post_owner, parent, t) ==
    IF parent # None
    THEN LET parent_comment == ParentCommentScalar(cmts, parent)
         IN  IF parent_comment = None
             THEN [w |-> w, ret |-> None]
             ELSE IF ~IntHasUserId
             THEN [w |-> w, ret |-> None]
             ELSE IF parent_comment = commenter
             THEN [w |-> w, ret |-> None]
             ELSE RefreshOrCreate(
                      w, ExistingComment(w.rows, parent_comment, commenter, post, REPLY),
                      NotificationCreate(parent_comment, commenter, REPLY, post, TRUE), t)
    ELSE IF commenter = post_owner
    THEN [w |-> w, ret |-> None]
    ELSE RefreshOrCreate(
             w, ExistingComment(w.rows, post_owner, commenter, post, COMMENT),
             NotificationCreate(post_owner, commenter, COMMENT, post, TRUE), t)

\* create_mention_notification: one create_notification per mentioned id
\* other than the sender, each with its own utcnow(); an exception of one
\* is logged and the loop goes on.  t is the clock before the call; ret is
\* the list of ids of the notifications returned.
RECURSIVE create_mention_notification(_, _, _, _, _)
create_mention_notification(w, post, sender, mentioned_user_ids, t) ==
    IF mentioned_user_ids = <<>>
    THEN [w |-> w, t |-> t, ret |-> <<>>]
    ELSE LET user_id == Head(mentioned_user_ids)
         IN  IF user_id = sender
             THEN create_mention_notification(w, post, sender, Tail(mentioned_user_ids), t)
             ELSE LET r == create_notification(
                               w, NotificationCreate(user_id, sender, MENTION, post, TRUE), t + 1)
                      rest == create_mention_notification(
                                  r.w, post, sender, Tail(mentioned_user_ids), t + 1)
                  IN  [w |-> rest.w, t |-> rest.t,
                       ret |-> IF r.raised THEN rest.ret ELSE <<r.ret>> \o rest.ret]

\* ------------------------------------------------------- reads and updates
\* select(Notification).where(id == notification_id, receiver_id == user_id)
\* The lookup by id alone, without the receiver: what C11 rests on.
Owned_by_id(rows, notification_id, user_id) ==
    {n \in rows : n.id = notification_id}

Owned(rows, notification_id, user_id) ==
    {n \in rows : n.id = notification_id /\ n.receiver_id = user_id}

Unread(rows, user_id) ==
    {n \in rows : n.receiver_id = user_id /\ ~n.is_read}

\* current = await self.redis.get(unread_key)
\* if current and int(current) > 0: await self.redis.decr(unread_key)
\* raised is TRUE when the decrement is reached and RedisService has none.
DecrIfPositive(w, user_id) ==
    LET current == IF RedisHas("get") THEN w.unread[user_id] ELSE Absent
    IN  IF ~RedisHas("get") THEN [w |-> w, raised |-> TRUE]
        ELSE IF current # Absent /\ current > 0
        THEN IF RedisHas("decr")
             THEN [w |-> [w EXCEPT !.unread[user_id] = @ - 1], raised |-> FALSE]
             ELSE [w |-> w, raised |-> TRUE]
        ELSE [w |-> w, raised |-> FALSE]

\* notification.is_read = True; notification.read_at = utcnow(); commit.
MarkRow(w, n, t) ==
    [w EXCEPT !.rows = (@ \ {n}) \cup {[n EXCEPT !.is_read = TRUE, !.read_at = t]}]

\* mark_as_read after its commit: the counter decrement, then the page-cache
\* invalidation; ret is the notification's id, or None when one of them
\* raised (the except clause rolls back, with nothing pending).
AfterMarkRead(w, id, user_id) ==
    LET d == DecrIfPositive(w, user_id)
    IN  IF d.raised \/ ~RedisHas("delete_pattern")
        THEN [w |-> d.w, ret |-> None]
        ELSE [w |-> d.w, ret |-> id]

\* mark_as_read with the is_read test left out: what C10 rests on.
mark_as_read_unchecked(w, notification_id, user_id, t) ==
    LET found == Owned(w.rows, notification_id, user_id)
    IN  IF found = {}
        THEN [w |-> w, ret |-> None]
        ELSE LET n == CHOOSE n \in found : TRUE
             IN  AfterMarkRead(MarkRow(w, n, t), n.id, user_id)

\* mark_as_read: ret is the notification's id, or None (not found, or an
\* exception).
mark_as_read(w, notification_id, user_id, t) ==
    LET found == Owned(w.rows, notification_id, user_id)
    IN  IF found = {}
        THEN [w |-> w, ret |-> None]
        ELSE LET n == CHOOSE n \in found : TRUE
             IN  IF n.is_read
                 THEN [w |-> w, ret |-> n.id]
                 ELSE AfterMarkRead(MarkRow(w, n, t), n.id, user_id)

\* update(Notification).where(receiver_id == user_id, is_read == False)
\*     .values(is_read=True, read_at=utcnow()); commit.
BulkMarkRead(w, user_id, t) ==
    LET hit == Unread(w.rows, user_id)
    IN  [w EXCEPT !.rows = (@ \ hit) \cup
            {[n EXCEPT !.is_read = TRUE, !.read_at = t] : n \in hit}]

\* mark_all_as_read after its commit; ret is the count returned, raised
\* tells whether the except clause produced it.
AfterBulkMarkRead(w, user_id, updated_count) ==
    IF updated_count > 0
    THEN IF ~RedisHas("set")
         THEN [w |-> w, ret |-> 0, raised |-> TRUE]
         ELSE LET w1 == [w EXCEPT !.unread[user_id] = 0]
              IN  IF ~RedisHas("delete_pattern")
                  THEN [w |-> w1, ret |-> 0, raised |-> TRUE]
                  ELSE [w |-> w1, ret |-> updated_count, raised |-> FALSE]
    ELSE [w |-> w, ret |-> updated_count, raised |-> FALSE]

\* mark_all_as_read: one bulk update, then the cache.
mark_all_as_read(w, user_id, t) ==
    AfterBulkMarkRead(BulkMarkRead(w, user_id, t), user_id,
                      Cardinality(Unread(w.rows, user_id)))

\* get_unread_count: the cached value when there is one, else a recount
\* that is stored with setex; an exception makes it return 0.
get_unread_count(w, user_id) ==
    LET cached == w.unread[user_id]
        count == Cardinality(Unread(w.rows, user_id))
    IN  IF ~RedisHas("get") THEN [w |-> w, ret |-> 0]
        ELSE IF cached # Absent THEN [w |-> w, ret |-> cached]
        ELSE IF ~RedisHas("setex") THEN [w |-> w, ret |-> 0]
        ELSE [w |-> [w EXCEPT !.unread[user_id] = count], ret |-> count]

\* delete_notification: ret is the boolean returned.
delete_notification(w, notification_id, user_id) ==
    LET found == Owned(w.rows, notification_id, user_id)
    IN  IF found = {}
        THEN [w |-> w, ret |-> FALSE]
        ELSE LET n == CHOOSE n \in found : TRUE
                 was_unread == ~n.is_read
                 w1 == [w EXCEPT !.rows = @ \ {n}]
                 d  == IF was_unread THEN DecrIfPositive(w1, user_id)
                                     ELSE [w |-> w1, raised |-> FALSE]
             IN  IF d.raised \/ ~RedisHas("delete_pattern")
                 THEN [w |-> d.w, ret |-> FALSE]
                 ELSE [w |-> [d.w EXCEPT !.latest[user_id] = <<>>], ret |-> TRUE]

\* delete_all_notifications: ret is the count returned, raised tells
\* whether the except clause produced it.
delete_all_notifications(w, user_id) ==
    LET mine == {n \in w.rows : n.receiver_id = user_id}
        count == Cardinality(mine)
        w1 == [w EXCEPT !.rows = @ \ mine]
    IN  IF count = 0
        THEN [w |-> w, ret |-> 0, raised |-> FALSE]
        ELSE IF ~RedisHas("delete_pattern")
        THEN [w |-> w1, ret |-> 0, raised |-> TRUE]
        ELSE IF ~RedisHas("delete")
        THEN [w |-> w1, ret |-> 0, raised |-> TRUE]
        ELSE [w |-> [w1 EXCEPT !.unread[user_id] = Absent,
                               !.latest[user_id] = <<>>],
              ret |-> count, raised |-> FALSE]

\* ------------------------------------------------ get_latest_notifications
\* redis lrange(key, 0, limit - 1), for limit >= 1.
LRange(list, limit) ==
    IF Len(list) <= limit THEN list ELSE SubSeq(list, 1, limit)

\* order_by(desc(created_at)): the ids of the rows, newest first.
RECURSIVE NewestFirst(_)
NewestFirst(rows) ==
    IF rows = {} THEN <<>>
    ELSE LET n == CHOOSE n \in rows :
                     \A m \in rows :
                         \/ m.created_at < n.created_at
                         \/ (m.created_at = n.created_at /\ m.id <= n.id)
         IN  <<n.id>> \o NewestFirst(rows \ {n})

\* select ... where receiver_id == user_id order by created_at desc limit n.
LatestRows(rows, user_id, limit) ==
    LRange(NewestFirst({n \in rows : n.receiver_id = user_id}), limit)

\* NotificationResponse(**item) for an item create_notification cached: the
\* dict has title and message but no content, which the schema requires.
CachedItemHasContent == FALSE

\* json.dumps(response.dict()): created_at is a datetime, which json.dumps
\* does not serialize.
ResponseJsonSerializable == FALSE

RECURSIVE LPushAll(_, _)
LPushAll(list, items) ==
    IF items = <<>> THEN list
    ELSE LPushAll(LPush(list, Head(items)), Tail(items))

\* get_latest_notifications(user_id, limit): ret is the list of ids
\* returned; any exception makes it the empty list.
get_latest_notifications(w, user_id, limit) ==
    LET cached == LRange(w.latest[user_id], limit)
        db == LatestRows(w.rows, user_id, limit)
        failed == [w |-> w, ret |-> <<>>, raised |-> TRUE]
    IN  IF ~RedisHas("lrange") THEN failed
        ELSE IF cached # <<>>
        THEN IF CachedItemHasContent
             THEN [w |-> w, ret |-> cached, raised |-> FALSE]
             ELSE failed
        ELSE IF db # <<>> /\ (~RedisHas("lpush") \/ ~ResponseJsonSerializable)
        THEN failed
        ELSE IF ~RedisHas("ltrim") THEN failed
        ELSE [w |-> [w EXCEPT !.latest[user_id] =
                        LTrim(LPushAll(@, db), limit)],
              ret |-> db, raised |-> FALSE]

\* ------------------------------------------------------ WebSocketManager
\* active_connections is a defaultdict(set): a function from the user ids
\* that are keys to their set object, which has an identity (id) apart from
\* its content (chans), since send_personal_notification keeps a reference
\* to the set across its await.
WsUsers == {1, 2}
Channels == {1, 2, 3}

\* The (user, websocket) pairs connect and disconnect are called with in
\* SpecWs and SpecRegistry: three channels for one user, so that one of
\* three can fail, and one of them for the other user as well.
Endpoints == {<<1, 1>>, <<1, 2>>, <<1, 3>>, <<2, 3>>}

\* How an awaited websocket.send_text ends: it returns, it raises
\* WebSocketDisconnect, or it raises another exception.
SENT == "sent"
DISCONNECT == "disconnect"
ERROR == "error"
Outcomes == {SENT, DISCONNECT, ERROR}

\* _send_message: True, False or a raised WebSocketDisconnect; gather with
\* return_exceptions=True hands the exception over as the result.
RETURNED_TRUE == "True"
RETURNED_FALSE == "False"
RAISED == "WebSocketDisconnect"
send_message(outcome) ==
    IF outcome = SENT THEN RETURNED_TRUE
    ELSE IF outcome = DISCONNECT THEN RAISED
    ELSE RETURNED_FALSE

\* active_connections.get(user_id, set()): the content.
Connections(ac, user_id) ==
    IF user_id \in DOMAIN ac THEN ac[user_id].chans ELSE {}

\* active_connections[user_id]: a defaultdict makes the entry when the key
\* is missing; g is the identity a set made now gets.
Entry(ac, user_id, g) ==
    IF user_id \in DOMAIN ac THEN ac[user_id] ELSE [id |-> g, chans |-> {}]

\* connect, the part under the lock: active_connections[user_id].add(ws).
Register(ac, user_id, websocket, g) ==
    [x \in DOMAIN ac \cup {user_id} |->
        IF x = user_id
        THEN [Entry(ac, user_id, g) EXCEPT !.chans = @ \cup {websocket}]
        ELSE ac[x]]

\* disconnect with the entry deleted whenever a channel is removed: what C20
\* rests on.
Unregister_whole_entry(ac, user_id, websocket) ==
    IF user_id \notin DOMAIN ac THEN ac
    ELSE [x \in DOMAIN ac \ {user_id} |-> ac[x]]

\* disconnect, the part under the lock: discard, and del when the set is
\* left empty.
Unregister(ac, user_id, websocket) ==
    IF user_id \notin DOMAIN ac THEN ac
    ELSE IF ac[user_id].chans \ {websocket} = {}
    THEN [x \in DOMAIN ac \ {user_id} |-> ac[x]]
    ELSE [ac EXCEPT ![user_id].chans = @ \ {websocket}]

\* send_personal_notification, the part under the lock, for the channels
\* whose result is an exception: active_connections[user_id].discard(c).
Evict(ac, user_id, dead, g) ==
    IF dead = {} THEN ac
    ELSE [x \in DOMAIN ac \cup {user_id} |->
             IF x = user_id
             THEN [Entry(ac, user_id, g) EXCEPT !.chans = @ \ dead]
             ELSE ac[x]]

\* The orders a set can be iterated in.
Orders(S) ==
    {f \in [1..Cardinality(S) -> S] : \A i, j \in DOMAIN f : f[i] = f[j] => i = j}

\* zip(connections.copy(), results): results are in the order of the copy
\* taken before the sends, the channels in the order of a copy taken after
\* them; the channels paired with an exception.
Paired(first, second, results) ==
    {second[i] : i \in {j \in DOMAIN second :
                           j \in DOMAIN first /\ results[first[j]] = RAISED}}

\* broadcast_notification, its locked loop: one _send_message coroutine
\* for every connection of every registered user that is not excluded.
\* A send is the pair <<user, connection>>.
BroadcastTargets_all(ac, exclude_users) ==
    UNION {{<<u, c>> : c \in ac[u].chans} : u \in DOMAIN ac}

BroadcastTargets(ac, exclude_users) ==
    UNION {{<<u, c>> : c \in ac[u].chans} :
              u \in {x \in DOMAIN ac : x \notin exclude_users}}

\* get_total_connections_count.
get_total_connections_count(ac) ==
    LET RECURSIVE Sum(_)
        Sum(K) == IF K = {} THEN 0
                  ELSE LET k == CHOOSE k \in K : TRUE
                       IN  Cardinality(ac[k].chans) + Sum(K \ {k})
    IN  Sum(DOMAIN ac)

\* get_connected_users_count.
get_connected_users_count(ac) == Cardinality(DOMAIN ac)

\* ------------------------------------------------- comment-creation handler
\* CommentService.create_comment: the parent, when given, must be a comment
\* of the same post (else ValueError); the comment row is committed; the
\* count updates and cache invalidation catch their own exceptions.
ParentOk(cmts, post, parent) ==
    parent = None \/ \E c \in cmts : c.id = parent /\ c.post_id = post

NewComment(cmts, post, user, parent) ==
    [id |-> Cardinality(cmts) + 1, user_id |-> user, post_id |-> post,
     parent_id |-> parent]

\* CommentService.get_comment(parent_id).user_id, None when there is none.
get_comment_author(cmts, comment_id) ==
    IF \E c \in cmts : c.id = comment_id
    THEN (CHOOSE c \in cmts : c.id = comment_id).user_id
    ELSE None

\* POST /posts/{post_id}/comments for an existing public post.  status is
\* the HTTP status; cmts the comment rows afterwards.  The first
\* notification call is made when the commenter is not the post owner, the
\* second when the comment is a reply to somebody else's comment; the second
\* uses the notification_service variable the first branch binds, so it
\* raises UnboundLocalError (500) when the first branch was skipped.
create_comment(w, cmts, user, post, parent, t) ==
    IF ~ParentOk(cmts, post, parent)
    THEN [w |-> w, cmts |-> cmts, status |-> 500]
    ELSE LET comment == NewComment(cmts, post, user, parent)
             cmts1 == cmts \cup {comment}
             first == PostOwner(post) # user
             r1 == IF first
                   THEN create_comment_notification(
                            w, cmts1, comment.id, user, post, PostOwner(post), parent, t)
                   ELSE [w |-> w, ret |-> None]
             author == get_comment_author(cmts1, parent)
             second == parent # None /\ author # None /\ author # user
             r2 == IF second
                   THEN create_comment_notification(
                            r1.w, cmts1, comment.id, user, post, author, parent, t + 1)
                   ELSE r1
         IN  IF second /\ ~first
             THEN [w |-> r1.w, cmts |-> cmts1, status |-> 500]
             ELSE [w |-> r2.w, cmts |-> cmts1, status |-> 200]

\* ------------------------------------------------ cleanup_old_notifications
\* datetime.utcnow().replace(hour=0, minute=0, second=0, microsecond=0):
\* the midnight that started the day of t.
Midnight(t) == t - (t % DayTicks)

\* cleanup_old_notifications(days) at time t: the cutoff is the midnight of
\* today, whatever days is; the rows created before it are deleted and the
\* deletion committed; then, per receiver of a deleted row, a pattern delete
\* and the delete of the latest list.  An exception is logged, rolled back
\* (nothing is pending then) and answered with 0.
cleanup_old_notifications(w, days, t) ==
    LET cutoff_date == Midnight(t)
        old_notifications == {n \in w.rows : n.created_at < cutoff_date}
        count == Cardinality(old_notifications)
        user_ids == {n.receiver_id : n \in old_notifications}
        w1 == [w EXCEPT !.rows = @ \ old_notifications]
    IN  IF count = 0 THEN [w |-> w, ret |-> 0]
        ELSE IF ~RedisHas("delete_pattern") THEN [w |-> w1, ret |-> 0]
        ELSE [w |-> [w1 EXCEPT !.latest =
                        [u \in Users |-> IF u \in user_ids THEN <<>> ELSE @[u]]],
              ret |-> count]

\* ---------------------------------------------- the cache of the services
\* LikeService, FollowService and CommentService each hold a RedisService
\* on the one Redis server of settings.redis_url.  A key is a record: ns the
\* leading name, id the id after it, item the name after the id, ref a
\* second id, args whether page or viewer arguments follow (one key stands
\* for the keys that differ in these arguments only).
CacheUsers == {1, 2}
CommentIds == {1, 2}

K(ns, id, item, ref, args) ==
    [ns |-> ns, id |-> id, item |-> item, ref |-> ref, args |-> args]

\* The keys of like_service.py.
LikeKeys ==
    {K("like", u, "post", p, FALSE) : u \in CacheUsers, p \in Posts}
    \cup {K("like", u, "comment", c, FALSE) : u \in CacheUsers, c \in CommentIds}
    \cup {K("post", p, "likes", None, TRUE) : p \in Posts}
    \cup {K("post", p, it, None, FALSE) : p \in Posts, it \in {"like_count", "like_stats"}}
    \cup {K("comment", c, "likes", None, TRUE) : c \in CommentIds}
    \cup {K("comment", c, "like_count", None, FALSE) : c \in CommentIds}
    \cup {K("user", u, it, None, TRUE) : u \in CacheUsers, it \in {"likes", "like_count"}}
    \cup {K("user", u, "like_stats", None, FALSE) : u \in CacheUsers}
    \cup {K("trending_posts", None, "", None, TRUE), K("recent_likes", None, "", None, TRUE)}

\* The keys of follow_service.py.
FollowKeys ==
    {K("follow", f, "", g, FALSE) : f \in CacheUsers, g \in CacheUsers}
    \cup {K("user", x, it, None, FALSE) :
             x \in CacheUsers, it \in {"follower_count", "following_count", "follow_stats"}}
    \cup {K("user", x, it, None, TRUE) :
             x \in CacheUsers, it \in {"followers", "following", "follow_suggestions"}}
    \cup {K("mutual", a, "", b, TRUE) : a \in CacheUsers, b \in CacheUsers}
    \cup {K("mutual_count", a, "", b, FALSE) : a \in CacheUsers, b \in CacheUsers}

\* The keys of comment_service.py.
CommentKeys ==
    {K("comment", c, it, None, TRUE) : c \in CommentIds, it \in {"user", "replies"}}
    \cup {K("comment", c, "stats", None, FALSE) : c \in CommentIds}
    \cup {K("post", p, it, None, TRUE) : p \in Posts, it \in {"comments", "comment_tree"}}
    \cup {K("post", p, it, None, FALSE) : p \in Posts, it \in {"comment_count", "comment_stats"}}
    \cup {K("user", u, "comments", None, TRUE) : u \in CacheUsers}
    \cup {K("user", u, "comment_count", None, FALSE) : u \in CacheUsers}

AllKeys == LikeKeys \cup FollowKeys \cup CommentKeys

\* The value a key holds: get_follow_relationship stores "1" or "0" and
\* get_follower_count a number; the services never look into the value of
\* any other key on these paths.
KeyValues(k) ==
    IF k.ns = "follow" THEN {"0", "1"}
    ELSE IF k.item = "follower_count" THEN {"0", "1", "2"}
    ELSE {"x"}

\* int(cached) of a stored count.
ParseInt(v) == CASE v = "0" -> 0 [] v = "1" -> 1 [] v = "2" -> 2

\* The cache is the set of its entries [key, val]; a key has one entry.
Present(c) == {e.key : e \in c}

\* A glob pattern stands for the keys it matches.
\* "{ns}:{id}:{item}:*"
Family(ns, id, item) ==
    {k \in AllKeys : k.ns = ns /\ k.id = id /\ k.item = item /\ k.args}

\* "*{ns}:{id}:{prefix}*" for the item names that start with prefix.
Items(ns, id, items) ==
    {k \in AllKeys : k.ns = ns /\ k.id = id /\ k.item \in items}

\* "*post:{id}*", "*comment:{id}*": the id can also be a key's second id.
Mentioning(ns, id) ==
    {k \in AllKeys : \/ k.ns = ns /\ k.id = id
                     \/ k.item = ns /\ k.ref = id}

\* "{ns}:*": trending_posts:*, recent_likes:*.
Namespace(ns) == {k \in AllKeys : k.ns = ns}

\* "mutual:*{id}*".
MutualOf(id) == {k \in AllKeys : k.ns = "mutual" /\ (k.id = id \/ k.ref = id)}

\* One call on self.redis: the method called and the keys it is to remove.
Delete(k) == [method |-> "delete", keys |-> {k}]
DeletePattern(keys) == [method |-> "delete_pattern", keys |-> keys]

Remove(c, keys) == {e \in c : e.key \notin keys}

\* The redis calls of one try block, in order: a call of a method that
\* RedisService does not define raises AttributeError, which ends the block
\* (its handler logs the error); the calls made before it have taken effect.
RECURSIVE RunCacheSteps(_, _)
RunCacheSteps(c, steps) ==
    IF steps = <<>> THEN [c |-> c, raised |-> FALSE]
    ELSE IF ~RedisHas(Head(steps).method) THEN [c |-> c, raised |-> TRUE]
    ELSE RunCacheSteps(Remove(c, Head(steps).keys), Tail(steps))

\* --------------------------------------------------- get_user_notifications
\* The (skip, limit, unread_only) a page is asked with.
PageArgs == {<<0, 1, FALSE>>, <<0, 1, TRUE>>, <<1, 1, FALSE>>}

\* cache_key = f"user:{user_id}:notifications:{skip}:{limit}:{unread_only}"
PageKey(user_id, a) ==
    [user |-> user_id, skip |-> a[1], limit |-> a[2], unread_only |-> a[3]]

\* .offset(skip)
Offset(list, skip) ==
    IF Len(list) <= skip THEN <<>> ELSE SubSeq(list, skip + 1, Len(list))

\* The response of the cold path: the rows of the user (the unread ones
\* when unread_only), newest first, cut to the page, as (id, is_read); their
\* number before the cut; the unread count.
Page(rows, user_id, a, unread) ==
    LET sel == {n \in rows : /\ n.receiver_id = user_id
                             /\ a[3] => ~n.is_read}
        ids == LRange(Offset(NewestFirst(sel), a[1]), a[2])
    IN  [notifications |->
             [i \in 1..Len(ids) |->
                 <<ids[i], (CHOOSE n \in sel : n.id = ids[i]).is_read>>],
         total |-> Cardinality(sel),
         unread_count |-> unread]

\* The response of the except clause.
ErrorPage == [notifications |-> <<>>, total |-> 0, unread_count |-> 0]

\* NotificationListResponse(**cached): RedisService.get returns the stored
\* string (decode_responses=True), and ** on a str raises TypeError.
StrIsMapping == FALSE

\* get_user_notifications with the cached value taken as the mapping the
\* response is built from.
get_user_notifications_hit(w, c, user_id, a) ==
    LET key == PageKey(user_id, a)
        u == get_unread_count(w, user_id)
    IN  IF key \in Present(c)
        THEN [ret |-> (CHOOSE e \in c : e.key = key).val, at |-> "hit"]
        ELSE IF ~RedisHas("setex")
        THEN [ret |-> ErrorPage, at |-> "except"]
        ELSE [ret |-> Page(w.rows, user_id, a, u.ret), at |-> "cold"]

\* get_user_notifications(user_id, skip, limit, unread_only): ret is the
\* response and at the return statement that produced it: the cache hit,
\* the cold path, or the except clause.
get_user_notifications(w, c, user_id, a) ==
    LET key == PageKey(user_id, a)
        u == get_unread_count(w, user_id)
    IN  IF key \in Present(c)
        THEN IF StrIsMapping
             THEN [ret |-> (CHOOSE e \in c : e.key = key).val, at |-> "hit"]
             ELSE [ret |-> ErrorPage, at |-> "except"]
        ELSE IF ~RedisHas("setex")
        THEN [ret |-> ErrorPage, at |-> "except"]
        ELSE [ret |-> Page(w.rows, user_id, a, u.ret), at |-> "cold"]

\* -------------------------------------------------------------- LikeService
\* A Like row; exactly one of post_id and comment_id is set.
LikeRow(user_id, post_id, comment_id) ==
    [user_id |-> user_id, post_id |-> post_id, comment_id |-> comment_id]

\* LikeService._update_like_count: the counter column is updated and
\* committed, then the pattern delete; the method catches its exceptions.
update_like_count(c, post_id, comment_id) ==
    IF post_id # None
    THEN RunCacheSteps(c, <<DeletePattern(Mentioning("post", post_id))>>).c
    ELSE IF comment_id # None
    THEN RunCacheSteps(c, <<DeletePattern(Mentioning("comment", comment_id))>>).c
    ELSE c

\* LikeService._update_like_cache.
update_like_cache(c, user_id, post_id, comment_id) ==
    LET target ==
            IF post_id # None
            THEN <<Delete(K("like", user_id, "post", post_id, FALSE)),
                   DeletePattern(Family("post", post_id, "likes")),
                   Delete(K("post", post_id, "like_count", None, FALSE)),
                   Delete(K("post", post_id, "like_stats", None, FALSE))>>
            ELSE IF comment_id # None
            THEN <<Delete(K("like", user_id, "comment", comment_id, FALSE)),
                   DeletePattern(Family("comment", comment_id, "likes")),
                   Delete(K("comment", comment_id, "like_count", None, FALSE))>>
            ELSE <<>>
        rest ==
            <<DeletePattern(Family("user", user_id, "likes")),
              DeletePattern(Family("user", user_id, "like_count")),
              Delete(K("user", user_id, "like_stats", None, FALSE)),
              DeletePattern(Namespace("trending_posts")),
              DeletePattern(Namespace("recent_likes"))>>
    IN  RunCacheSteps(c, target \o rest).c

\* LikeService._get_existing_like.
get_existing_like(lks, user_id, post_id, comment_id) ==
    {l \in lks : /\ l.user_id = user_id
                 /\ (post_id # None => l.post_id = post_id)
                 /\ (comment_id # None => l.comment_id = comment_id)}

\* likes.comment_id references comments.id.
CommentExists(cmts, comment_id) == \E x \in cmts : x.id = comment_id

\* LikeService.create_like: ValueError unless exactly one of post_id and
\* comment_id is given and when the like exists; else the row is committed
\* (the insert raises when the comment does not exist), the counter updated
\* and the cache invalidated.
create_like(c, lks, cmts, user_id, post_id, comment_id) ==
    IF \/ (post_id # None /\ comment_id # None)
       \/ (post_id = None /\ comment_id = None)
       \/ get_existing_like(lks, user_id, post_id, comment_id) # {}
       \/ (comment_id # None /\ ~CommentExists(cmts, comment_id))
    THEN [c |-> c, likes |-> lks, raised |-> TRUE, ret |-> None]
    ELSE [c |-> update_like_cache(update_like_count(c, post_id, comment_id),
                                  user_id, post_id, comment_id),
          likes |-> lks \cup {LikeRow(user_id, post_id, comment_id)},
          raised |-> FALSE, ret |-> TRUE]

\* LikeService.delete_like: False when there is no such like.
delete_like(c, lks, user_id, post_id, comment_id) ==
    LET like == get_existing_like(lks, user_id, post_id, comment_id)
    IN  IF like = {}
        THEN [c |-> c, likes |-> lks, raised |-> FALSE, ret |-> FALSE]
        ELSE [c |-> update_like_cache(update_like_count(c, post_id, comment_id),
                                      user_id, post_id, comment_id),
              likes |-> lks \ like,
              raised |-> FALSE, ret |-> TRUE]

\* CommentService.like_comment / unlike_comment: the like row and the
\* counter are committed, then the two pattern deletes run in the method's
\* own try block, whose handler rolls back (nothing is pending) and
\* returns False.
like_comment(c, lks, cmts, comment_id, user_id) ==
    IF \/ get_existing_like(lks, user_id, None, comment_id) # {}
       \/ ~CommentExists(cmts, comment_id)
    THEN [c |-> c, likes |-> lks, raised |-> FALSE, ret |-> FALSE]
    ELSE LET r == RunCacheSteps(c,
                      <<DeletePattern(Mentioning("comment", comment_id)),
                        DeletePattern({k \in AllKeys : k.ns = "post" /\ k.item = "comments"})>>)
         IN  [c |-> r.c, likes |-> lks \cup {LikeRow(user_id, None, comment_id)},
              raised |-> FALSE, ret |-> ~r.raised]

\* ------------------------------------------------------------ FollowService
\* FollowService.get_follow_relationship: a cached "0" answers None, a
\* cached "1" the row there is; on a miss the row is read and stored with
\* setex, and the method's handler turns an exception into None.
get_follow_relationship(c, fls, follower_id, following_id) ==
    LET key == K("follow", follower_id, "", following_id, FALSE)
        row == fls \cap {<<follower_id, following_id>>}
    IN  IF key \in Present(c)
        THEN IF [key |-> key, val |-> "1"] \in c THEN row ELSE {}
        ELSE IF ~RedisHas("setex") THEN {} ELSE row

\* FollowService.get_follower_count: the cached number when there is one;
\* else the rows are counted and the count stored with setex, and the
\* method's handler turns an exception into 0.
get_follower_count(c, fls, user_id) ==
    LET key == K("user", user_id, "follower_count", None, FALSE)
        count == Cardinality({p \in fls : p[2] = user_id})
    IN  IF key \in Present(c)
        THEN ParseInt((CHOOSE e \in c : e.key = key).val)
        ELSE IF ~RedisHas("setex") THEN 0 ELSE count

\* FollowService._update_follow_cache.
update_follow_cache(c, follower_id, following_id) ==
    RunCacheSteps(c,
        <<Delete(K("follow", follower_id, "", following_id, FALSE)),
          Delete(K("follow", following_id, "", follower_id, FALSE)),
          Delete(K("user", follower_id, "following_count", None, FALSE)),
          Delete(K("user", following_id, "follower_count", None, FALSE)),
          DeletePattern(Family("user", follower_id, "following")),
          DeletePattern(Family("user", following_id, "followers")),
          DeletePattern(Family("user", follower_id, "follow_suggestions")),
          DeletePattern(Family("user", following_id, "follow_suggestions")),
          Delete(K("user", follower_id, "follow_stats", None, FALSE)),
          Delete(K("user", following_id, "follow_stats", None, FALSE)),
          DeletePattern(MutualOf(follower_id)),
          DeletePattern(MutualOf(following_id))>>).c

\* FollowService.create_follow: ValueError when the relationship is found;
\* the insert of a pair that exists violates unique_follow and raises.
create_follow(c, fls, follower_id, following_id) ==
    IF get_follow_relationship(c, fls, follower_id, following_id) # {}
       \/ <<follower_id, following_id>> \in fls
    THEN [c |-> c, follows |-> fls, raised |-> TRUE, ret |-> None]
    ELSE [c |-> update_follow_cache(c, follower_id, following_id),
          follows |-> fls \cup {<<follower_id, following_id>>},
          raised |-> FALSE, ret |-> TRUE]

\* FollowService.delete_follow: False when there is no such row.
delete_follow(c, fls, follower_id, following_id) ==
    IF <<follower_id, following_id>> \notin fls
    THEN [c |-> c, follows |-> fls, raised |-> FALSE, ret |-> FALSE]
    ELSE [c |-> update_follow_cache(c, follower_id, following_id),
          follows |-> fls \ {<<follower_id, following_id>>},
          raised |-> FALSE, ret |-> TRUE]

\* ----------------------------------------------------------- CommentService
\* CommentService._update_post_comment_count: recount, commit, pattern
\* delete; the method catches its exceptions.
update_post_comment_count(c, post_id) ==
    RunCacheSteps(c, <<DeletePattern(Mentioning("post", post_id))>>).c

\* CommentService._invalidate_comment_caches(post_id, user_id, parent_id).
invalidate_comment_caches(c, post_id, user_id, parent_id) ==
    RunCacheSteps(c,
        <<DeletePattern(Items("post", post_id, {"comments"})),
          DeletePattern(Items("post", post_id, {"comments", "comment_count",
                                                "comment_stats", "comment_tree"}))>>
        \o (IF user_id # None
            THEN <<DeletePattern(Items("user", user_id, {"comments"}))>>
            ELSE <<>>)
        \o (IF parent_id # None
            THEN <<DeletePattern(Items("comment", parent_id, {"replies"})),
                   DeletePattern({k \in AllKeys : k.ns = "comment" /\ k.id = parent_id})>>
            ELSE <<>>)
        \o <<DeletePattern(Items("post", post_id, {"comment_tree"})),
             Delete(K("post", post_id, "comment_count", None, FALSE))>>).c

\* The primary key the next Comment row gets.
NextCommentId(cmts) ==
    IF cmts = {} THEN 1
    ELSE 1 + (CHOOSE m \in {x.id : x \in cmts} : \A x \in cmts : x.id <= m)

\* CommentService.create_comment(post_id, user_id, comment_data).
CommentService_create_comment(c, cmts, post_id, user_id, parent_id) ==
    IF ~ParentOk(cmts, post_id, parent_id)
    THEN [c |-> c, cmts |-> cmts, raised |-> TRUE, ret |-> None]
    ELSE LET id == NextCommentId(cmts)
             row == [id |-> id, user_id |-> user_id, post_id |-> post_id,
                     parent_id |-> parent_id]
         IN  [c |-> invalidate_comment_caches(
                        update_post_comment_count(c, post_id),
                        post_id, user_id, parent_id),
              cmts |-> cmts \cup {row}, raised |-> FALSE, ret |-> id]

\* CommentService.update_comment(comment_id, comment_update): ValueError
\* when there is no such comment; the invalidation is called with the
\* comment's own post, author and parent.
update_comment(c, cmts, comment_id) ==
    LET found == {x \in cmts : x.id = comment_id}
    IN  IF found = {}
        THEN [c |-> c, cmts |-> cmts, raised |-> TRUE, ret |-> None]
        ELSE LET comment == CHOOSE x \in found : TRUE
             IN  [c |-> invalidate_comment_caches(c, comment.post_id, comment.user_id,
                                                  comment.parent_id),
                  cmts |-> cmts, raised |-> FALSE, ret |-> comment_id]

\* CommentService._delete_comment_tree: the comment and all its replies.
RECURSIVE delete_comment_tree(_, _)
delete_comment_tree(cmts, comment_id) ==
    LET replies == {x \in cmts : x.parent_id = comment_id}
    IN  {x \in cmts : x.id = comment_id}
        \cup UNION {delete_comment_tree(cmts \ {x}, x.id) : x \in replies}

\* CommentService.delete_comment(comment_id, user_id): the invalidation is
\* called with the caller's user_id.  The likes of a deleted comment go
\* with it (ondelete CASCADE).
delete_comment(c, lks, cmts, comment_id, user_id) ==
    LET found == {x \in cmts : x.id = comment_id}
    IN  IF found = {}
        THEN [c |-> c, likes |-> lks, cmts |-> cmts, raised |-> TRUE, ret |-> None]
        ELSE LET comment == CHOOSE x \in found : TRUE
                 gone == delete_comment_tree(cmts, comment_id)
             IN  [c |-> invalidate_comment_caches(
                            update_post_comment_count(c, comment.post_id),
                            comment.post_id, user_id, comment.parent_id),
                  likes |-> {l \in lks : l.comment_id \notin {x.id : x \in gone}},
                  cmts |-> cmts \ gone,
                  raised |-> FALSE, ret |-> comment_id]

\* ------------------------------------------------------ Comment.like_count
\* update(Comment).where(Comment.id == comment_id)
\*     .values(like_count=Comment.like_count + 1), or - 1; commit.
\* (LikeService._update_like_count, CommentService.like_comment.)
add_like_count(lc, cmts, comment_id, delta) ==
    IF comment_id \in DOMAIN lc /\ CommentExists(cmts, comment_id)
    THEN [lc EXCEPT ![comment_id] = @ + delta]
    ELSE lc

\* CommentService._update_parent_comment_stats: the replies of the parent
\* are counted and the count is written to the parent's like_count.
update_parent_comment_stats(lc, cmts, parent_comment_id) ==
    IF parent_comment_id \in DOMAIN lc /\ CommentExists(cmts, parent_comment_id)
    THEN [lc EXCEPT ![parent_comment_id] =
             Cardinality({x \in cmts : x.parent_id = parent_comment_id})]
    ELSE lc

\* like_count of the rows that are gone, and of a row inserted: default=0.
default_like_count(lc, ids) ==
    [x \in DOMAIN lc |-> IF x \in ids THEN 0 ELSE lc[x]]

\* --------------------------------------------------------------- the state
\* last: the operation, its arguments, what it returned (ret) or that it
\* raised, and two facts about the state it started from: dup, the number of
\* rows that carried the event's dedup key, and before, the receiver's
\* cached unread counter.
NoCall ==
    [op |-> "none", args |-> <<>>, ret |-> None, raised |-> FALSE,
     dup |-> 0, before |-> Absent]

Init ==
    /\ notifications = {}
    /\ next_id = 1
    /\ comments = {}
    /\ now = 0
    /\ calls = 0
    /\ unread_count = [u \in Users |-> Absent]
    /\ latest_notifications = [u \in Users |-> <<>>]
    /\ ws_pushes = <<>>
    /\ sink_tasks = {}
    /\ last = NoCall
    /\ tasks = <<>>
    /\ active_connections = <<>>
    /\ next_set = 1
    /\ ws_tasks = <<>>
    /\ ws_log = [u \in WsUsers |-> [c \in Channels |-> "none"]]
    /\ managers = <<>>
    /\ realtime = {}
    /\ cache = {}
    /\ likes = {}
    /\ follows = {}
    /\ lock = None
    /\ like_count = [x \in CommentIds |-> 0]

\* The rows that carry the dedup key of a creation event.
KeyRows(rows, receiver, sender, type, post) ==
    {n \in rows : /\ n.receiver_id = receiver
                  /\ n.sender_id = sender
                  /\ n.type = type
                  /\ n.related_post_id = post}

Called(op, args, ret, raised, dup, before) ==
    last' = [op |-> op, args |-> args, ret |-> ret, raised |-> raised,
             dup |-> dup, before |-> before]

\* The events the generic create_notification is called with: the type only
\* selects the message template, so two types stand for the seven.
Events ==
    {NotificationCreate(r, s, ty, p, FALSE) :
        r \in Users, s \in Users \cup {None}, ty \in {FOLLOW, SYSTEM},
        p \in Posts \cup {None}}

\* System notifications: no sender, no post.
SystemEvents ==
    {NotificationCreate(r, None, SYSTEM, None, FALSE) : r \in Users}

\* Lists of mentioned user ids: up to two entries, repeats included.
MentionLists ==
    UNION {[1..k -> Users] : k \in 0..2}

\* ------------------------------------------- Spec: one call after the other
CreateNotification ==
    \E d \in Events :
        /\ calls < MaxCalls
        /\ LET r == create_notification(World, d, now + 1)
           IN  /\ Apply(r.w)
               /\ Called("create_notification",
                         <<d.receiver_id, d.sender_id, d.type, d.related_post_id>>,
                         r.ret, r.raised,
                         Cardinality(KeyRows(notifications, d.receiver_id, d.sender_id,
                                             d.type, d.related_post_id)),
                         unread_count[d.receiver_id])
        /\ now' = now + 1
        /\ calls' = calls + 1
        /\ UNCHANGED <<comments, tasks, ws_vars, kv_vars, aux_vars>>

CreateLikeNotification ==
    \E post \in Posts, liker \in Users, owner \in Users :
        /\ calls < MaxCalls
        /\ LET r == create_like_notification(World, post, liker, owner, now + 1)
           IN  /\ Apply(r.w)
               /\ Called("create_like_notification", <<post, liker, owner>>, r.ret, FALSE,
                         Cardinality(ExistingLike(notifications, post, liker, owner)),
                         unread_count[owner])
        /\ now' = now + 1
        /\ calls' = calls + 1
        /\ UNCHANGED <<comments, tasks, ws_vars, kv_vars, aux_vars>>

CreateFollowNotification ==
    \E follower \in Users, following \in Users :
        /\ calls < MaxCalls
        /\ LET r == create_follow_notification(World, follower, following, now + 1)
           IN  /\ Apply(r.w)
               /\ Called("create_follow_notification", <<follower, following>>, r.ret, FALSE,
                         Cardinality(ExistingFollow(notifications, follower, following)),
                         unread_count[following])
        /\ now' = now + 1
        /\ calls' = calls + 1
        /\ UNCHANGED <<comments, tasks, ws_vars, kv_vars, aux_vars>>

CreateCommentNotification ==
    \E commenter \in Users, post \in Posts, owner \in Users,
       parent \in {None} \cup {c.id : c \in comments} :
        /\ calls < MaxCalls
        /\ LET r == create_comment_notification(World, comments, None, commenter, post,
                                                owner, parent, now + 1)
           IN  /\ Apply(r.w)
               /\ Called("create_comment_notification",
                         <<commenter, post, owner, parent>>, r.ret, FALSE,
                         Cardinality(ExistingComment(notifications, owner, commenter,
                                                     post, COMMENT)),
                         unread_count[owner])
        /\ now' = now + 1
        /\ calls' = calls + 1
        /\ UNCHANGED <<comments, tasks, ws_vars, kv_vars, aux_vars>>

CreateMentionNotification ==
    \E post \in Posts, sender \in Users, ids \in MentionLists :
        /\ calls < MaxCalls
        /\ LET r == create_mention_notification(World, post, sender, ids, now)
           IN  /\ Apply(r.w)
               /\ Called("create_mention_notification", <<post, sender, ids>>,
                         Len(r.ret), FALSE, 0, Absent)
               /\ now' = r.t
        /\ calls' = calls + 1
        /\ UNCHANGED <<comments, tasks, ws_vars, kv_vars, aux_vars>>

MarkAsRead ==
    \E id \in 1..next_id, u \in Users :
        /\ calls < MaxReadCalls
        /\ LET r == mark_as_read(World, id, u, now + 1)
           IN  /\ Apply(r.w)
               /\ Called("mark_as_read", <<id, u>>, r.ret, FALSE, 0, unread_count[u])
        /\ now' = now + 1
        /\ calls' = calls + 1
        /\ UNCHANGED <<comments, tasks, ws_vars, kv_vars, aux_vars>>

MarkAllAsRead ==
    \E u \in Users :
        /\ calls < MaxReadCalls
        /\ LET r == mark_all_as_read(World, u, now + 1)
           IN  /\ Apply(r.w)
               /\ Called("mark_all_as_read", <<u>>, r.ret, r.raised, 0, unread_count[u])
        /\ now' = now + 1
        /\ calls' = calls + 1
        /\ UNCHANGED <<comments, tasks, ws_vars, kv_vars, aux_vars>>

GetUnreadCount ==
    \E u \in Users :
        /\ calls < MaxReadCalls
        /\ LET r == get_unread_count(World, u)
           IN  /\ Apply(r.w)
               /\ Called("get_unread_count", <<u>>, r.ret, FALSE, 0, unread_count[u])
        /\ now' = now
        /\ calls' = calls + 1
        /\ UNCHANGED <<comments, tasks, ws_vars, kv_vars, aux_vars>>

DeleteNotification ==
    \E id \in 1..next_id, u \in Users :
        /\ calls < MaxReadCalls
        /\ LET r == delete_notification(World, id, u)
           IN  /\ Apply(r.w)
               /\ Called("delete_notification", <<id, u>>, r.ret, FALSE, 0, unread_count[u])
        /\ now' = now
        /\ calls' = calls + 1
        /\ UNCHANGED <<comments, tasks, ws_vars, kv_vars, aux_vars>>

DeleteAllNotifications ==
    \E u \in Users :
        /\ calls < MaxReadCalls
        /\ LET r == delete_all_notifications(World, u)
           IN  /\ Apply(r.w)
               /\ Called("delete_all_notifications", <<u>>, r.ret, r.raised, 0, unread_count[u])
        /\ now' = now
        /\ calls' = calls + 1
        /\ UNCHANGED <<comments, tasks, ws_vars, kv_vars, aux_vars>>

CreateComment ==
    \E user \in Users, post \in Posts, parent \in {None} \cup {c.id : c \in comments} :
        /\ calls < MaxCalls
        /\ LET r == create_comment(World, comments, user, post, parent, now + 1)
           IN  /\ Apply(r.w)
               /\ comments' = r.cmts
               /\ Called("create_comment", <<user, post, parent>>, r.status, FALSE,
                         0, unread_count[PostOwner(post)])
        /\ now' = now + 2
        /\ calls' = calls + 1
        /\ UNCHANGED <<tasks, ws_vars, kv_vars, aux_vars>>

CreateSystemNotification ==
    \E d \in SystemEvents :
        /\ calls < MaxReadCalls
        /\ LET r == create_notification(World, d, now + 1)
           IN  /\ Apply(r.w)
               /\ Called("create_notification",
                         <<d.receiver_id, d.sender_id, d.type, d.related_post_id>>,
                         r.ret, r.raised, 0, unread_count[d.receiver_id])
        /\ now' = now + 1
        /\ calls' = calls + 1
        /\ UNCHANGED <<comments, tasks, ws_vars, kv_vars, aux_vars>>

\* Spec: the creation operations and the comment handler.
Next ==
    \/ CreateNotification
    \/ CreateLikeNotification
    \/ CreateCommentNotification
    \/ CreateFollowNotification
    \/ CreateMentionNotification
    \/ CreateComment

Spec == Init /\ [][Next]_vars

\* SpecRead: system notifications and the receiver's operations on them.
NextRead ==
    \/ CreateSystemNotification
    \/ MarkAsRead
    \/ MarkAllAsRead
    \/ GetUnreadCount
    \/ DeleteNotification
    \/ DeleteAllNotifications

SpecRead == Init /\ [][NextRead]_vars

\* ------------------------------------------ SpecConc: interleaved tasks
\* Each call is an asyncio task; a step runs from one await that yields to
\* the next one that does, so tasks interleave between the existence query,
\* the commit and what follows the commit.  Every notification here goes to
\* the owner of a post, from any of the users.
Task(op, args) ==
    [op |-> op, args |-> args, pc |-> "query", loc |-> None, ret |-> None]

Done(tk, ret) == [tk EXCEPT !.pc = "done", !.ret = ret]

Producers ==
    {"create_like_notification", "create_comment_notification",
     "create_follow_notification"}

\* The sender and the receiver of a producer task, and the event it builds.
TaskSender(tk) == IF tk.op = "create_follow_notification" THEN tk.args[1] ELSE tk.args[2]
TaskReceiver(tk) == IF tk.op = "create_follow_notification" THEN tk.args[2] ELSE tk.args[3]

TaskEvent(tk) ==
    IF tk.op = "create_like_notification"
    THEN NotificationCreate(tk.args[3], tk.args[2], LIKE, tk.args[1], TRUE)
    ELSE IF tk.op = "create_comment_notification"
    THEN NotificationCreate(tk.args[3], tk.args[2], COMMENT, tk.args[1], TRUE)
    ELSE NotificationCreate(tk.args[2], tk.args[1], FOLLOW, None, TRUE)

TaskExisting(rows, tk) ==
    IF tk.op = "create_like_notification"
    THEN ExistingLike(rows, tk.args[1], tk.args[2], tk.args[3])
    ELSE IF tk.op = "create_comment_notification"
    THEN ExistingComment(rows, tk.args[3], tk.args[2], tk.args[1], COMMENT)
    ELSE ExistingFollow(rows, tk.args[1], tk.args[2])

\* What the arrival of a request leaves alone: its handler is a coroutine
\* that has not run yet.
StartFrame ==
    UNCHANGED <<notifications, next_id, comments, now, calls, unread_count,
                latest_notifications, ws_pushes, sink_tasks, last, ws_vars,
                       kv_vars, aux_vars>>

StartLike ==
    /\ Len(tasks) < MaxTasks
    /\ \E post \in Posts, liker \in Users :
          tasks' = Append(tasks,
              Task("create_like_notification", <<post, liker, PostOwner(post)>>))
    /\ StartFrame

\* A comment on a post (no parent comment).
StartComment ==
    /\ Len(tasks) < MaxTasks
    /\ \E post \in Posts, commenter \in Users :
          tasks' = Append(tasks,
              Task("create_comment_notification", <<post, commenter, PostOwner(post)>>))
    /\ StartFrame

StartFollow ==
    /\ Len(tasks) < MaxTasks
    /\ \E post \in Posts, follower \in Users :
          tasks' = Append(tasks,
              Task("create_follow_notification", <<follower, PostOwner(post)>>))
    /\ StartFrame

StartMarkAsRead ==
    /\ Len(tasks) < MaxTasks
    /\ \E post \in Posts, id \in 1..next_id :
          tasks' = Append(tasks, Task("mark_as_read", <<id, PostOwner(post)>>))
    /\ StartFrame

StartMarkAllAsRead ==
    /\ Len(tasks) < MaxTasks
    /\ \E post \in Posts :
          tasks' = Append(tasks, Task("mark_all_as_read", <<PostOwner(post)>>))
    /\ StartFrame

\* A producer up to its existence query: the self check, then the query.
ProducerQuery(i) ==
    LET tk == tasks[i]
        existing == TaskExisting(notifications, tk)
    IN  /\ tk.op \in Producers
        /\ tk.pc = "query"
        /\ tasks' = [tasks EXCEPT ![i] =
               IF TaskSender(tk) = TaskReceiver(tk) THEN Done(tk, None)
               ELSE IF Cardinality(existing) > 1 THEN Done(tk, None)
               ELSE IF existing # {}
               THEN [tk EXCEPT !.pc = "refresh",
                               !.loc = (CHOOSE n \in existing : TRUE).id]
               ELSE [tk EXCEPT !.pc = "insert"]]
        /\ UNCHANGED <<notifications, next_id, comments, now, calls, unread_count,
                       latest_notifications, ws_pushes, sink_tasks, last, ws_vars,
                       kv_vars, aux_vars>>

\* existing.created_at = utcnow(); commit: the row the query returned.
ProducerRefresh(i) ==
    LET tk == tasks[i]
    IN  /\ tk.pc = "refresh"
        /\ \E n \in notifications :
              /\ n.id = tk.loc
              /\ Apply(Refresh(World, n, now + 1))
        /\ now' = now + 1
        /\ tasks' = [tasks EXCEPT ![i] = Done(tk, tk.loc)]
        /\ UNCHANGED <<comments, calls, last, ws_vars, kv_vars, aux_vars>>

\* The sender lookup, then create_notification up to its commit.
ProducerInsert(i) ==
    LET tk == tasks[i]
    IN  /\ tk.pc = "insert"
        /\ Apply(DbAddCommit(World, TaskEvent(tk), now + 1))
        /\ now' = now + 1
        /\ tasks' = [tasks EXCEPT ![i] = [tk EXCEPT !.pc = "after", !.loc = next_id]]
        /\ UNCHANGED <<comments, calls, last, ws_vars, kv_vars, aux_vars>>

\* create_notification after its commit, to the step that raises.
ProducerAfter(i) ==
    LET tk == tasks[i]
        r == AfterCommit(World, TaskEvent(tk), tk.loc)
    IN  /\ tk.pc = "after"
        /\ Apply(r.w)
        /\ tasks' = [tasks EXCEPT ![i] = Done(tk, IF r.raised THEN None ELSE tk.loc)]
        /\ UNCHANGED <<comments, now, calls, last, ws_vars, kv_vars, aux_vars>>

\* mark_as_read up to its query.
ReadQuery(i) ==
    LET tk == tasks[i]
        found == Owned(notifications, tk.args[1], tk.args[2])
    IN  /\ tk.op = "mark_as_read"
        /\ tk.pc = "query"
        /\ tasks' = [tasks EXCEPT ![i] =
               IF found = {} THEN Done(tk, None)
               ELSE IF \A n \in found : n.is_read THEN Done(tk, tk.args[1])
               ELSE [tk EXCEPT !.pc = "commit", !.loc = tk.args[1]]]
        /\ UNCHANGED <<notifications, next_id, comments, now, calls, unread_count,
                       latest_notifications, ws_pushes, sink_tasks, last, ws_vars,
                       kv_vars, aux_vars>>

\* is_read = True, read_at = utcnow(), commit: an UPDATE of the row by id.
ReadCommit(i) ==
    LET tk == tasks[i]
    IN  /\ tk.pc = "commit"
        /\ \E n \in notifications :
              /\ n.id = tk.loc
              /\ Apply(MarkRow(World, n, now + 1))
        /\ now' = now + 1
        /\ tasks' = [tasks EXCEPT ![i] = [tk EXCEPT !.pc = "cache"]]
        /\ UNCHANGED <<comments, calls, last, ws_vars, kv_vars, aux_vars>>

\* mark_as_read after its commit.
ReadCache(i) ==
    LET tk == tasks[i]
        r == AfterMarkRead(World, tk.loc, tk.args[2])
    IN  /\ tk.op = "mark_as_read"
        /\ tk.pc = "cache"
        /\ Apply(r.w)
        /\ tasks' = [tasks EXCEPT ![i] = Done(tk, r.ret)]
        /\ UNCHANGED <<comments, now, calls, last, ws_vars, kv_vars, aux_vars>>

\* mark_all_as_read: the bulk UPDATE and its commit; loc is its rowcount.
BulkUpdate(i) ==
    LET tk == tasks[i]
    IN  /\ tk.op = "mark_all_as_read"
        /\ tk.pc = "query"
        /\ Apply(BulkMarkRead(World, tk.args[1], now + 1))
        /\ now' = now + 1
        /\ tasks' = [tasks EXCEPT ![i] =
               [tk EXCEPT !.pc = "cache",
                          !.loc = Cardinality(Unread(notifications, tk.args[1]))]]
        /\ UNCHANGED <<comments, calls, last, ws_vars, kv_vars, aux_vars>>

\* mark_all_as_read after its commit.
BulkCache(i) ==
    LET tk == tasks[i]
        r == AfterBulkMarkRead(World, tk.args[1], tk.loc)
    IN  /\ tk.op = "mark_all_as_read"
        /\ tk.pc = "cache"
        /\ Apply(r.w)
        /\ tasks' = [tasks EXCEPT ![i] = Done(tk, r.ret)]
        /\ UNCHANGED <<comments, now, calls, last, ws_vars, kv_vars, aux_vars>>

NextConc ==
    \/ StartLike
    \/ StartComment
    \/ StartFollow
    \/ StartMarkAsRead
    \/ StartMarkAllAsRead
    \/ \E i \in 1..Len(tasks) : ProducerQuery(i)
    \/ \E i \in 1..Len(tasks) : ProducerRefresh(i)
    \/ \E i \in 1..Len(tasks) : ProducerInsert(i)
    \/ \E i \in 1..Len(tasks) : ProducerAfter(i)
    \/ \E i \in 1..Len(tasks) : ReadQuery(i)
    \/ \E i \in 1..Len(tasks) : ReadCommit(i)
    \/ \E i \in 1..Len(tasks) : ReadCache(i)
    \/ \E i \in 1..Len(tasks) : BulkUpdate(i)
    \/ \E i \in 1..Len(tasks) : BulkCache(i)

SpecConc == Init /\ [][NextConc]_vars

\* ----------------------- SpecDecr: concurrent decrements of the counter
\* mark_as_read and delete_notification calls of one user as asyncio tasks:
\* the query, the commit and each call on self.redis are awaits of their
\* own.  loc is what the task holds from its query (the id of the unread
\* row, or was_unread), cur what its redis.get returned, decr whether its
\* redis.decr took effect.
DecrUsers == {1}

DecrTask(op, args) ==
    [op |-> op, args |-> args, pc |-> "query", loc |-> None, cur |-> Absent,
     decr |-> FALSE, ret |-> None]

DecrFrame ==
    UNCHANGED <<comments, calls, last, latest_notifications, ws_pushes,
                sink_tasks, ws_vars, kv_vars, aux_vars>>

\* create_notification for the user, one call at a time.
DecrCreate ==
    /\ next_id <= MaxCalls
    /\ \E u \in DecrUsers :
          LET r == create_notification(
                       World, NotificationCreate(u, None, SYSTEM, None, FALSE),
                       now + 1)
          IN  Apply(r.w)
    /\ now' = now + 1
    /\ UNCHANGED <<comments, calls, last, tasks, ws_vars, kv_vars, aux_vars>>

\* A call of the user arrives.
DecrStart ==
    /\ Len(tasks) < MaxTasks
    /\ \E op \in {"mark_as_read", "delete_notification"}, id \in 1..MaxCalls,
          u \in DecrUsers :
          tasks' = Append(tasks, DecrTask(op, <<id, u>>))
    /\ UNCHANGED <<notifications, next_id, now, unread_count>>
    /\ DecrFrame

\* mark_as_read up to its query: None when the row is not found, the row as
\* it is when it is read already.
MarkQuery(i) ==
    LET tk == tasks[i]
        found == Owned(notifications, tk.args[1], tk.args[2])
    IN  /\ tk.op = "mark_as_read"
        /\ tk.pc = "query"
        /\ tasks' = [tasks EXCEPT ![i] =
               IF found = {} THEN [tk EXCEPT !.pc = "done"]
               ELSE IF \A n \in found : n.is_read
               THEN [tk EXCEPT !.pc = "done", !.ret = tk.args[1]]
               ELSE [tk EXCEPT !.pc = "commit", !.loc = tk.args[1]]]
        /\ UNCHANGED <<notifications, next_id, now, unread_count>>
        /\ DecrFrame

\* is_read = True, read_at = utcnow(), commit: an UPDATE of the row by its
\* id; when the row is gone the flush raises and the except clause answers
\* None.
MarkCommit(i) ==
    LET tk == tasks[i]
        found == {n \in notifications : n.id = tk.loc}
    IN  /\ tk.op = "mark_as_read"
        /\ tk.pc = "commit"
        /\ IF found = {}
           THEN /\ tasks' = [tasks EXCEPT ![i] = [tk EXCEPT !.pc = "done"]]
                /\ UNCHANGED <<notifications, next_id, now, unread_count,
                               latest_notifications, ws_pushes, sink_tasks>>
           ELSE /\ Apply(MarkRow(World, CHOOSE n \in found : TRUE, now + 1))
                /\ now' = now + 1
                /\ tasks' = [tasks EXCEPT ![i] = [tk EXCEPT !.pc = "get"]]
        /\ UNCHANGED <<comments, calls, last, ws_vars, kv_vars, aux_vars>>

\* delete_notification up to its query: False when the row is not found;
\* was_unread = not notification.is_read.
DeleteQuery(i) ==
    LET tk == tasks[i]
        found == Owned(notifications, tk.args[1], tk.args[2])
    IN  /\ tk.op = "delete_notification"
        /\ tk.pc = "query"
        /\ tasks' = [tasks EXCEPT ![i] =
               IF found = {} THEN [tk EXCEPT !.pc = "done", !.ret = 0]
               ELSE [tk EXCEPT !.pc = "commit",
                               !.loc = IF \E n \in found : ~n.is_read
                                       THEN 1 ELSE 0]]
        /\ UNCHANGED <<notifications, next_id, now, unread_count>>
        /\ DecrFrame

\* await self.db.delete(notification); await self.db.commit(): a DELETE of
\* the row by its id.
DeleteCommit(i) ==
    LET tk == tasks[i]
    IN  /\ tk.op = "delete_notification"
        /\ tk.pc = "commit"
        /\ notifications' = {n \in notifications : n.id # tk.args[1]}
        /\ tasks' = [tasks EXCEPT ![i] =
               [tk EXCEPT !.pc = IF tk.loc = 1 THEN "get" ELSE "invalidate"]]
        /\ UNCHANGED <<next_id, now, unread_count>>
        /\ DecrFrame

\* The next call on self.redis of a task past its commit:
\*   current = await self.redis.get(unread_key)
\*   if current and int(current) > 0: await self.redis.decr(unread_key)
\*   await self.redis.delete_pattern(...)
\* A call of a method RedisService does not define raises, and the except
\* clause ends the task with None or False (0); else mark_as_read returns
\* the row and delete_notification True (1).
CounterStep(i) ==
    LET tk == tasks[i]
        u == tk.args[2]
        ok == IF tk.op = "mark_as_read" THEN tk.args[1] ELSE 1
    IN  /\ tk.pc \in {"get", "decr", "invalidate"}
        /\ \/ /\ tk.pc = "get"
              /\ tasks' = [tasks EXCEPT ![i] =
                     [tk EXCEPT !.cur = unread_count[u],
                                !.pc = IF unread_count[u] # Absent /\ unread_count[u] > 0
                                       THEN "decr" ELSE "invalidate"]]
              /\ UNCHANGED unread_count
           \/ /\ tk.pc = "decr"
              /\ IF RedisHas("decr")
                 THEN /\ unread_count' = [unread_count EXCEPT ![u] = @ - 1]
                      /\ tasks' = [tasks EXCEPT ![i] =
                             [tk EXCEPT !.decr = TRUE, !.pc = "invalidate"]]
                 ELSE /\ tasks' = [tasks EXCEPT ![i] = [tk EXCEPT !.pc = "done"]]
                      /\ UNCHANGED unread_count
           \/ /\ tk.pc = "invalidate"
              /\ tasks' = [tasks EXCEPT ![i] =
                     IF RedisHas("delete_pattern")
                     THEN [tk EXCEPT !.pc = "done", !.ret = ok]
                     ELSE [tk EXCEPT !.pc = "done"]]
              /\ UNCHANGED unread_count
        /\ UNCHANGED <<notifications, next_id, now>>
        /\ DecrFrame

NextDecr ==
    \/ DecrCreate
    \/ DecrStart
    \/ \E i \in 1..Len(tasks) : MarkQuery(i)
    \/ \E i \in 1..Len(tasks) : MarkCommit(i)
    \/ \E i \in 1..Len(tasks) : DeleteQuery(i)
    \/ \E i \in 1..Len(tasks) : DeleteCommit(i)
    \/ \E i \in 1..Len(tasks) : CounterStep(i)

SpecDecr == Init /\ [][NextDecr]_vars

\* ------------------------------------------ SpecLatest: the latest list
\* Creations for two receivers and reads of the latest list, one call after
\* the other.
LatestReceivers == {1, 2}

\* The limits a caller passes: below, at and above what the list keeps.
Limits == {1, LatestKeep, LatestKeep + 1}

LatestCreate ==
    \E receiver \in LatestReceivers :
        /\ calls < MaxLatestCalls
        /\ LET d == NotificationCreate(receiver, 3, SYSTEM, None, FALSE)
               r == create_notification(World, d, now + 1)
           IN  /\ Apply(r.w)
               /\ Called("create_notification",
                         <<d.receiver_id, d.sender_id, d.type, d.related_post_id>>,
                         r.ret, r.raised, 0, unread_count[receiver])
        /\ now' = now + 1
        /\ calls' = calls + 1
        /\ UNCHANGED <<comments, tasks, ws_vars, kv_vars, aux_vars>>

GetLatestNotifications ==
    \E u \in LatestReceivers, limit \in Limits :
        /\ calls < MaxLatestCalls
        /\ LET r == get_latest_notifications(World, u, limit)
           IN  /\ Apply(r.w)
               /\ Called("get_latest_notifications", <<u, limit>>, r.ret,
                         r.raised, 0, unread_count[u])
        /\ now' = now
        /\ calls' = calls + 1
        /\ UNCHANGED <<comments, tasks, ws_vars, kv_vars, aux_vars>>

NextLatest ==
    \/ LatestCreate
    \/ GetLatestNotifications

SpecLatest == Init /\ [][NextLatest]_vars

\* ------------------------------------- SpecWs: one WebSocketManager
\* The calls of one manager as asyncio tasks.  The lock is never held
\* across an await that suspends, so each locked part is one step.
WsTask(op, user_id, websocket, excl) ==
    [op |-> op, user |-> user_id, chan |-> websocket, excl |-> excl,
     pc |-> "start", snap |-> {}, obj |-> None, results |-> <<>>,
     evicted |-> {}]

WsFrame == UNCHANGED <<svc_vars, managers, realtime, kv_vars, aux_vars>>

\* A call of the manager arrives: its coroutine has not run yet.
WsStartFrame ==
    /\ UNCHANGED <<active_connections, next_set, ws_log>>
    /\ WsFrame

StartConnect ==
    /\ Len(ws_tasks) < MaxWsTasks
    /\ \E e \in Endpoints :
          ws_tasks' = Append(ws_tasks, WsTask("connect", e[1], e[2], {}))
    /\ WsStartFrame

StartDisconnect ==
    /\ Len(ws_tasks) < MaxWsTasks
    /\ \E e \in Endpoints :
          ws_tasks' = Append(ws_tasks, WsTask("disconnect", e[1], e[2], {}))
    /\ WsStartFrame

StartSendPersonal ==
    /\ Len(ws_tasks) < MaxWsTasks
    /\ \E u \in WsUsers :
          ws_tasks' = Append(ws_tasks,
              WsTask("send_personal_notification", u, None, {}))
    /\ WsStartFrame

StartBroadcast ==
    /\ Len(ws_tasks) < MaxWsTasks
    /\ \E excl \in {{}, {2}} :
          ws_tasks' = Append(ws_tasks,
              WsTask("broadcast_notification", None, None, excl))
    /\ WsStartFrame

\* connect: await websocket.accept().
ConnectAccept ==
    \E i \in 1..Len(ws_tasks) :
        /\ ws_tasks[i].op = "connect"
        /\ ws_tasks[i].pc = "start"
        /\ ws_tasks' = [ws_tasks EXCEPT ![i].pc = "add"]
        /\ UNCHANGED <<active_connections, next_set, ws_log>>
        /\ WsFrame

\* connect: async with self.lock: active_connections[user_id].add(websocket).
ConnectAdd ==
    \E i \in 1..Len(ws_tasks) :
        LET tk == ws_tasks[i]
        IN  /\ tk.op = "connect"
            /\ tk.pc = "add"
            /\ active_connections' =
                  Register(active_connections, tk.user, tk.chan, next_set)
            /\ next_set' = IF tk.user \in DOMAIN active_connections
                           THEN next_set ELSE next_set + 1
            /\ ws_log' = [ws_log EXCEPT ![tk.user][tk.chan] = "connect"]
            /\ ws_tasks' = [ws_tasks EXCEPT ![i].pc = "done"]
            /\ WsFrame

\* disconnect: the whole call, under the lock.
Disconnect ==
    \E i \in 1..Len(ws_tasks) :
        LET tk == ws_tasks[i]
        IN  /\ tk.op = "disconnect"
            /\ tk.pc = "start"
            /\ active_connections' =
                  Unregister(active_connections, tk.user, tk.chan)
            /\ ws_log' = [ws_log EXCEPT ![tk.user][tk.chan] = "disconnect"]
            /\ ws_tasks' = [ws_tasks EXCEPT ![i].pc = "done"]
            /\ UNCHANGED next_set
            /\ WsFrame

\* send_personal_notification up to its gather: the set object is fetched,
\* an empty one ends the call, else one send per channel of a copy starts.
SendStart ==
    \E i \in 1..Len(ws_tasks) :
        LET tk == ws_tasks[i]
            connections == Connections(active_connections, tk.user)
        IN  /\ tk.op = "send_personal_notification"
            /\ tk.pc = "start"
            /\ ws_tasks' = [ws_tasks EXCEPT ![i] =
                  IF connections = {}
                  THEN [tk EXCEPT !.pc = "done"]
                  ELSE [tk EXCEPT !.pc = "gather", !.snap = connections,
                                  !.obj = active_connections[tk.user].id]]
            /\ UNCHANGED <<active_connections, next_set, ws_log>>
            /\ WsFrame

\* await asyncio.gather(*tasks, return_exceptions=True): every send has
\* ended, each in one of the three ways.
SendGather ==
    \E i \in 1..Len(ws_tasks) :
        LET tk == ws_tasks[i]
        IN  /\ tk.op = "send_personal_notification"
            /\ tk.pc = "gather"
            /\ \E outcome \in [tk.snap -> Outcomes] :
                  ws_tasks' = [ws_tasks EXCEPT ![i] =
                      [tk EXCEPT !.pc = "evict",
                                 !.results = [c \in tk.snap |-> send_message(outcome[c])]]]
            /\ UNCHANGED <<active_connections, next_set, ws_log>>
            /\ WsFrame

\* send_personal_notification, the part under the lock.  The set the call
\* holds is the user's current one, or a set that was emptied and deleted
\* since.  Iterating an unchanged set gives the order of the first copy;
\* the order of a changed set is any.
SendEvict ==
    \E i \in 1..Len(ws_tasks) :
        LET tk == ws_tasks[i]
            live == IF /\ tk.user \in DOMAIN active_connections
                       /\ active_connections[tk.user].id = tk.obj
                    THEN active_connections[tk.user].chans
                    ELSE {}
        IN  /\ tk.op = "send_personal_notification"
            /\ tk.pc = "evict"
            /\ \E first \in Orders(tk.snap), second \in Orders(live) :
                  /\ live = tk.snap => second = first
                  /\ LET dead == Paired(first, second, tk.results)
                     IN  /\ active_connections' =
                               Evict(active_connections, tk.user, dead, next_set)
                         /\ next_set' =
                               IF dead = {} \/ tk.user \in DOMAIN active_connections
                               THEN next_set ELSE next_set + 1
                         /\ ws_tasks' = [ws_tasks EXCEPT ![i] =
                               [tk EXCEPT !.pc = "done", !.evicted = dead]]
            /\ UNCHANGED ws_log
            /\ WsFrame

\* broadcast_notification up to its gather: under the lock, one send per
\* channel of every user that is not excluded.
BroadcastStart ==
    \E i \in 1..Len(ws_tasks) :
        LET tk == ws_tasks[i]
            targets == BroadcastTargets(active_connections, tk.excl)
        IN  /\ tk.op = "broadcast_notification"
            /\ tk.pc = "start"
            /\ ws_tasks' = [ws_tasks EXCEPT ![i] =
                  IF targets = {}
                  THEN [tk EXCEPT !.pc = "done"]
                  ELSE [tk EXCEPT !.pc = "gather", !.snap = targets]]
            /\ UNCHANGED <<active_connections, next_set, ws_log>>
            /\ WsFrame

\* broadcast_notification: its gather(return_exceptions=True) runs every
\* coroutine to its end; the results are dropped.
BroadcastGather ==
    \E i \in 1..Len(ws_tasks) :
        LET tk == ws_tasks[i]
        IN  /\ tk.op = "broadcast_notification"
            /\ tk.pc = "gather"
            /\ \E outcome \in [tk.snap -> Outcomes] :
                  ws_tasks' = [ws_tasks EXCEPT ![i] =
                      [tk EXCEPT !.pc = "done",
                                 !.results = [c \in tk.snap |-> send_message(outcome[c])]]]
            /\ UNCHANGED <<active_connections, next_set, ws_log>>
            /\ WsFrame

NextWs ==
    \/ StartConnect
    \/ StartDisconnect
    \/ StartSendPersonal
    \/ StartBroadcast
    \/ ConnectAccept
    \/ ConnectAdd
    \/ Disconnect
    \/ SendStart
    \/ SendGather
    \/ SendEvict
    \/ BroadcastStart
    \/ BroadcastGather

SpecWs == Init /\ [][NextWs]_vars

\* SpecRegistry: connect and disconnect calls only.
NextRegistry ==
    \/ StartConnect
    \/ StartDisconnect
    \/ ConnectAccept
    \/ ConnectAdd
    \/ Disconnect

SpecRegistry == Init /\ [][NextRegistry]_vars

\* --------------------------------- SpecLock: the manager's lock, by step
\* The same calls with `async with self.lock` as steps of their own: a task
\* enters the block when the lock is free and leaves it after the block's
\* last statement.
MaxLockTasks == 3

\* The statements of a call that `async with self.lock` encloses, with the
\* gather of send_personal_notification enclosed as well.
InLock_gather(op, pc) ==
    \/ op = "connect" /\ pc = "add"
    \/ op = "disconnect" /\ pc = "start"
    \/ op = "send_personal_notification" /\ pc \in {"gather", "evict"}
    \/ op = "broadcast_notification" /\ pc = "start"

\* The statements of a call that `async with self.lock` encloses: the add of
\* connect, the body of disconnect, the eviction loop of
\* send_personal_notification, the collecting loop of broadcast_notification.
InLock(op, pc) ==
    \/ op = "connect" /\ pc = "add"
    \/ op = "disconnect" /\ pc = "start"
    \/ op = "send_personal_notification" /\ pc = "evict"
    \/ op = "broadcast_notification" /\ pc = "start"

\* The statements that await a channel: websocket.accept() of connect and
\* the gather over the _send_message coroutines.
Awaits(op, pc) ==
    \/ op = "connect" /\ pc = "start"
    \/ op = "send_personal_notification" /\ pc = "gather"
    \/ op = "broadcast_notification" /\ pc = "gather"

\* A statement runs inside the block exactly when its task holds the lock.
MayRun(i) == InLock(ws_tasks[i].op, ws_tasks[i].pc) <=> lock = i

LockFrame == UNCHANGED <<svc_vars, managers, realtime, kv_vars, like_count>>

\* A call of the manager arrives.
LockStart ==
    /\ Len(ws_tasks) < MaxLockTasks
    /\ \/ \E e \in Endpoints, op \in {"connect", "disconnect"} :
             ws_tasks' = Append(ws_tasks, WsTask(op, e[1], e[2], {}))
       \/ \E u \in WsUsers :
             ws_tasks' = Append(ws_tasks,
                 WsTask("send_personal_notification", u, None, {}))
       \/ \E excl \in {{}, {2}} :
             ws_tasks' = Append(ws_tasks,
                 WsTask("broadcast_notification", None, None, excl))
    /\ UNCHANGED <<active_connections, next_set, ws_log, lock>>
    /\ LockFrame

\* async with self.lock, on entry: lock.acquire() returns once it is free.
LockAcquire ==
    \E i \in 1..Len(ws_tasks) :
        /\ InLock(ws_tasks[i].op, ws_tasks[i].pc)
        /\ lock = None
        /\ lock' = i
        /\ UNCHANGED <<active_connections, next_set, ws_tasks, ws_log>>
        /\ LockFrame

\* async with self.lock, on exit: lock.release().
LockRelease ==
    \E i \in 1..Len(ws_tasks) :
        /\ lock = i
        /\ ~InLock(ws_tasks[i].op, ws_tasks[i].pc)
        /\ lock' = None
        /\ UNCHANGED <<active_connections, next_set, ws_tasks, ws_log>>
        /\ LockFrame

\* connect: await websocket.accept().
LockConnectAccept ==
    \E i \in 1..Len(ws_tasks) :
        /\ ws_tasks[i].op = "connect"
        /\ ws_tasks[i].pc = "start"
        /\ MayRun(i)
        /\ ws_tasks' = [ws_tasks EXCEPT ![i].pc = "add"]
        /\ UNCHANGED <<active_connections, next_set, ws_log, lock>>
        /\ LockFrame

\* connect: self.active_connections[user_id].add(websocket).  The log line
\* after the block reads the entry this add made, with no await in between.
LockConnectAdd ==
    \E i \in 1..Len(ws_tasks) :
        LET tk == ws_tasks[i]
        IN  /\ tk.op = "connect"
            /\ tk.pc = "add"
            /\ MayRun(i)
            /\ active_connections' =
                  Register(active_connections, tk.user, tk.chan, next_set)
            /\ next_set' = IF tk.user \in DOMAIN active_connections
                           THEN next_set ELSE next_set + 1
            /\ ws_log' = [ws_log EXCEPT ![tk.user][tk.chan] = "connect"]
            /\ ws_tasks' = [ws_tasks EXCEPT ![i].pc = "done"]
            /\ UNCHANGED lock
            /\ LockFrame

\* disconnect: the discard and the del of an emptied entry.
LockDisconnect ==
    \E i \in 1..Len(ws_tasks) :
        LET tk == ws_tasks[i]
        IN  /\ tk.op = "disconnect"
            /\ tk.pc = "start"
            /\ MayRun(i)
            /\ active_connections' =
                  Unregister(active_connections, tk.user, tk.chan)
            /\ ws_log' = [ws_log EXCEPT ![tk.user][tk.chan] = "disconnect"]
            /\ ws_tasks' = [ws_tasks EXCEPT ![i].pc = "done"]
            /\ UNCHANGED <<next_set, lock>>
            /\ LockFrame

\* send_personal_notification: connections = active_connections.get(user_id,
\* set()), the return on an empty set, the list of coroutines.
LockSendStart ==
    \E i \in 1..Len(ws_tasks) :
        LET tk == ws_tasks[i]
            connections == Connections(active_connections, tk.user)
        IN  /\ tk.op = "send_personal_notification"
            /\ tk.pc = "start"
            /\ MayRun(i)
            /\ ws_tasks' = [ws_tasks EXCEPT ![i] =
                  IF connections = {}
                  THEN [tk EXCEPT !.pc = "done"]
                  ELSE [tk EXCEPT !.pc = "gather", !.snap = connections,
                                  !.obj = active_connections[tk.user].id]]
            /\ UNCHANGED <<active_connections, next_set, ws_log, lock>>
            /\ LockFrame

\* send_personal_notification: results = await asyncio.gather(...).
LockSendGather ==
    \E i \in 1..Len(ws_tasks) :
        LET tk == ws_tasks[i]
        IN  /\ tk.op = "send_personal_notification"
            /\ tk.pc = "gather"
            /\ MayRun(i)
            /\ \E outcome \in [tk.snap -> Outcomes] :
                  ws_tasks' = [ws_tasks EXCEPT ![i] =
                      [tk EXCEPT !.pc = "evict",
                                 !.results = [c \in tk.snap |-> send_message(outcome[c])]]]
            /\ UNCHANGED <<active_connections, next_set, ws_log, lock>>
            /\ LockFrame

\* send_personal_notification: the eviction loop.
LockSendEvict ==
    \E i \in 1..Len(ws_tasks) :
        LET tk == ws_tasks[i]
            live == IF /\ tk.user \in DOMAIN active_connections
                       /\ active_connections[tk.user].id = tk.obj
                    THEN active_connections[tk.user].chans
                    ELSE {}
        IN  /\ tk.op = "send_personal_notification"
            /\ tk.pc = "evict"
            /\ MayRun(i)
            /\ \E first \in Orders(tk.snap), second \in Orders(live) :
                  /\ live = tk.snap => second = first
                  /\ LET dead == Paired(first, second, tk.results)
                     IN  /\ active_connections' =
                               Evict(active_connections, tk.user, dead, next_set)
                         /\ next_set' =
                               IF dead = {} \/ tk.user \in DOMAIN active_connections
                               THEN next_set ELSE next_set + 1
                         /\ ws_tasks' = [ws_tasks EXCEPT ![i] =
                               [tk EXCEPT !.pc = "done", !.evicted = dead]]
            /\ UNCHANGED <<ws_log, lock>>
            /\ LockFrame

\* broadcast_notification: the collecting loop.
LockBroadcastStart ==
    \E i \in 1..Len(ws_tasks) :
        LET tk == ws_tasks[i]
            targets == BroadcastTargets(active_connections, tk.excl)
        IN  /\ tk.op = "broadcast_notification"
            /\ tk.pc = "start"
            /\ MayRun(i)
            /\ ws_tasks' = [ws_tasks EXCEPT ![i] =
                  IF targets = {}
                  THEN [tk EXCEPT !.pc = "done"]
                  ELSE [tk EXCEPT !.pc = "gather", !.snap = targets]]
            /\ UNCHANGED <<active_connections, next_set, ws_log, lock>>
            /\ LockFrame

\* broadcast_notification: if tasks: await asyncio.gather(...).
LockBroadcastGather ==
    \E i \in 1..Len(ws_tasks) :
        LET tk == ws_tasks[i]
        IN  /\ tk.op = "broadcast_notification"
            /\ tk.pc = "gather"
            /\ MayRun(i)
            /\ \E outcome \in [tk.snap -> Outcomes] :
                  ws_tasks' = [ws_tasks EXCEPT ![i] =
                      [tk EXCEPT !.pc = "done",
                                 !.results = [c \in tk.snap |-> send_message(outcome[c])]]]
            /\ UNCHANGED <<active_connections, next_set, ws_log, lock>>
            /\ LockFrame

NextLock ==
    \/ LockStart
    \/ LockAcquire
    \/ LockRelease
    \/ LockConnectAccept
    \/ LockConnectAdd
    \/ LockDisconnect
    \/ LockSendStart
    \/ LockSendGather
    \/ LockSendEvict
    \/ LockBroadcastStart
    \/ LockBroadcastGather

SpecLock == Init /\ [][NextLock]_vars

\* ----------------------------- SpecStall: sends that may never complete
\* websocket.send_text() returns when the transport took the frame; a peer
\* that stops reading keeps it pending.  Nothing in _send_message or around
\* the gather bounds the wait.
NEVER == "never"
MaxStallTasks == 3

\* A connect or a send_personal_notification call of the manager arrives.
StallStart ==
    /\ Len(ws_tasks) < MaxStallTasks
    /\ \/ \E e \in Endpoints :
             ws_tasks' = Append(ws_tasks, WsTask("connect", e[1], e[2], {}))
       \/ \E u \in WsUsers :
             ws_tasks' = Append(ws_tasks,
                 WsTask("send_personal_notification", u, None, {}))
    /\ WsStartFrame

\* send_personal_notification: the gather starts every _send_message
\* coroutine; each send_text ends in one of the three ways or stays pending.
StallSendAwait ==
    \E i \in 1..Len(ws_tasks) :
        LET tk == ws_tasks[i]
        IN  /\ tk.op = "send_personal_notification"
            /\ tk.pc = "gather"
            /\ \E fate \in [tk.snap -> Outcomes \cup {NEVER}] :
                  ws_tasks' = [ws_tasks EXCEPT ![i] =
                      [tk EXCEPT !.pc = "await", !.results = fate]]
            /\ UNCHANGED <<active_connections, next_set, ws_log>>
            /\ WsFrame

\* results = await asyncio.gather(*tasks, return_exceptions=True): the
\* gather returns once every coroutine has ended.
StallGatherReturn ==
    \E i \in 1..Len(ws_tasks) :
        LET tk == ws_tasks[i]
        IN  /\ tk.op = "send_personal_notification"
            /\ tk.pc = "await"
            /\ \A c \in tk.snap : tk.results[c] # NEVER
            /\ ws_tasks' = [ws_tasks EXCEPT ![i] =
                  [tk EXCEPT !.pc = "evict",
                             !.results = [c \in tk.snap |-> send_message(tk.results[c])]]]
            /\ UNCHANGED <<active_connections, next_set, ws_log>>
            /\ WsFrame

NextStall ==
    \/ StallStart
    \/ ConnectAccept
    \/ ConnectAdd
    \/ SendStart
    \/ StallSendAwait
    \/ StallGatherReturn
    \/ SendEvict

\* The event loop runs every task that can run.
SpecStall ==
    /\ Init
    /\ [][NextStall]_vars
    /\ WF_vars(ConnectAccept)
    /\ WF_vars(ConnectAdd)
    /\ WF_vars(SendStart)
    /\ WF_vars(StallSendAwait)
    /\ WF_vars(StallGatherReturn)
    /\ WF_vars(SendEvict)

\* ------------------------- SpecRealtime: services and their managers
\* Every handler constructs its own NotificationService, and every
\* NotificationService constructs its own WebSocketManager: managers[i] is
\* the active_connections of the manager of the i-th service constructed.
\* The sends of a call all succeed here.
NewManager == <<>>

\* The envelopes {type: notification, action: new} one call of
\* send_personal_notification(user_id, notification) of a manager sends.
send_personal_notification(ac, user_id, id) ==
    {[chan |-> c, id |-> id] : c \in Connections(ac, user_id)}

\* The channels a user has registered, in whatever manager.
OpenChannels(ms, user_id) ==
    UNION {Connections(ms[i], user_id) : i \in 1..Len(ms)}

RealtimeFrame ==
    UNCHANGED <<comments, tasks, active_connections, next_set, ws_tasks, ws_log,
                kv_vars, aux_vars>>

\* The WebSocket endpoint up to its receive loop: service =
\* NotificationService(db); service.subscribe_to_notifications(user, ws).
WsSubscribe ==
    \E u \in WsUsers, c \in Channels :
        /\ Len(managers) < MaxServices
        /\ \A v \in WsUsers : c \notin OpenChannels(managers, v)
        /\ managers' = Append(managers, Register(NewManager, u, c, next_set))
        /\ UNCHANGED <<notifications, next_id, now, calls, unread_count,
                       latest_notifications, ws_pushes, sink_tasks, last, realtime>>
        /\ RealtimeFrame

\* The WebSocket endpoint's finally clause: unsubscribe on its own service.
WsUnsubscribe ==
    \E i \in 1..Len(managers), u \in WsUsers, c \in Channels :
        /\ c \in Connections(managers[i], u)
        /\ managers' = [managers EXCEPT ![i] = Unregister(@, u, c)]
        /\ UNCHANGED <<notifications, next_id, now, calls, unread_count,
                       latest_notifications, ws_pushes, sink_tasks, last, realtime>>
        /\ RealtimeFrame

\* A request handler: notification_service = NotificationService(db), then
\* a creation for the receiver; the realtime send goes to the manager of
\* that service.
RequestCreate ==
    \E receiver \in WsUsers, sender \in Users :
        /\ Len(managers) < MaxServices
        /\ sender # receiver
        /\ LET d == NotificationCreate(receiver, sender, FOLLOW, None, TRUE)
               r == create_notification(World, d, now + 1)
               own == NewManager
               sends == Len(r.w.pushes) - Len(ws_pushes)
           IN  /\ Apply(r.w)
               /\ Called("create_notification",
                         <<d.receiver_id, d.sender_id, d.type, d.related_post_id>>,
                         r.ret, r.raised, 0, unread_count[receiver])
               /\ managers' = Append(managers, own)
               /\ realtime' = realtime \cup
                     (IF sends > 0
                      THEN send_personal_notification(own, receiver, next_id)
                      ELSE {})
        /\ now' = now + 1
        /\ calls' = calls + 1
        /\ RealtimeFrame

NextRealtime ==
    \/ WsSubscribe
    \/ WsUnsubscribe
    \/ RequestCreate

SpecRealtime == Init /\ [][NextRealtime]_vars

\* ----------------------------- SpecFault: create_notification, failing db
\* The call records whether its commit went through as a fifth argument.
CreateNotificationDb ==
    \E d \in Events, commit_ok \in BOOLEAN :
        /\ calls < MaxCalls
        /\ LET r == create_notification_db(World, d, now + 1, commit_ok)
           IN  /\ Apply(r.w)
               /\ Called("create_notification",
                         <<d.receiver_id, d.sender_id, d.type, d.related_post_id,
                           commit_ok>>,
                         r.ret, r.raised,
                         Cardinality(KeyRows(notifications, d.receiver_id, d.sender_id,
                                             d.type, d.related_post_id)),
                         unread_count[d.receiver_id])
        /\ now' = now + 1
        /\ calls' = calls + 1
        /\ UNCHANGED <<comments, tasks, ws_vars, kv_vars, aux_vars>>

NextFault == CreateNotificationDb

SpecFault == Init /\ [][NextFault]_vars

\* --------------------------------- SpecCleanup: the retention sweep
\* The run lasts at most MaxNow ticks.
MaxNow == (DefaultDays + MaxExtraDays) * DayTicks

\* Time passes between two calls: the default retention.  (Every call of
\* create_notification takes a tick of its own.)
ClockAdvance ==
    \E d \in {DefaultDays * DayTicks} :
        /\ now + d <= MaxNow
        /\ now' = now + d
        /\ UNCHANGED <<notifications, next_id, comments, calls, unread_count,
                       latest_notifications, ws_pushes, sink_tasks, last, tasks,
                       ws_vars, kv_vars, aux_vars>>

\* The days a sweep is called with: one day, a week, the default.
CleanupDays == {1, 7, DefaultDays}

CleanupOldNotifications ==
    \E days \in CleanupDays :
        /\ calls < MaxReadCalls
        /\ LET r == cleanup_old_notifications(World, days, now)
           IN  /\ Apply(r.w)
               /\ Called("cleanup_old_notifications", <<days>>, r.ret, FALSE, 0, Absent)
        /\ now' = now
        /\ calls' = calls + 1
        /\ UNCHANGED <<comments, tasks, ws_vars, kv_vars, aux_vars>>

NextCleanup ==
    \/ CreateSystemNotification
    \/ ClockAdvance
    \/ CleanupOldNotifications

SpecCleanup == Init /\ [][NextCleanup]_vars

\* ------------------------------------- SpecCache: the services' cache keys
CacheFrame ==
    UNCHANGED <<notifications, next_id, now, unread_count, latest_notifications,
                ws_pushes, sink_tasks, tasks, ws_vars, aux_vars>>

\* The frame of the calls that write Comment.like_count.
CountFrame ==
    UNCHANGED <<notifications, next_id, now, unread_count, latest_notifications,
                ws_pushes, sink_tasks, tasks, ws_vars, lock>>

\* A key one of the clients of the Redis server stored: the server is shared
\* and outlives the process, and RedisService connects to it as it is.
RedisStore ==
    \E k \in AllKeys : \E v \in KeyValues(k) :
        /\ Cardinality(cache) < MaxCachedKeys
        /\ k \notin Present(cache)
        /\ cache' = cache \cup {[key |-> k, val |-> v]}
        /\ UNCHANGED <<likes, follows, comments, calls, last>>
        /\ CacheFrame

\* What a like can be put on: a post or a comment.
LikeTargets ==
    {<<p, None>> : p \in Posts} \cup {<<None, c>> : c \in CommentIds}

CreateLike ==
    \E u \in CacheUsers, tg \in LikeTargets :
        /\ calls < MaxCacheCalls
        /\ LET r == create_like(cache, likes, comments, u, tg[1], tg[2])
           IN  /\ cache' = r.c
               /\ likes' = r.likes
               /\ Called("create_like", <<u, tg[1], tg[2]>>, r.ret, r.raised, 0, Absent)
               /\ like_count' = IF r.raised THEN like_count
                                ELSE add_like_count(like_count, comments, tg[2], 1)
        /\ calls' = calls + 1
        /\ UNCHANGED <<follows, comments>>
        /\ CountFrame

DeleteLike ==
    \E u \in CacheUsers, tg \in LikeTargets :
        /\ calls < MaxCacheCalls
        /\ LET r == delete_like(cache, likes, u, tg[1], tg[2])
           IN  /\ cache' = r.c
               /\ likes' = r.likes
               /\ Called("delete_like", <<u, tg[1], tg[2]>>, r.ret, r.raised, 0, Absent)
               /\ like_count' = IF r.ret
                                THEN add_like_count(like_count, comments, tg[2], -1)
                                ELSE like_count
        /\ calls' = calls + 1
        /\ UNCHANGED <<follows, comments>>
        /\ CountFrame

LikeComment ==
    \E u \in CacheUsers, cm \in CommentIds :
        /\ calls < MaxCacheCalls
        /\ LET r == like_comment(cache, likes, comments, cm, u)
           IN  /\ cache' = r.c
               /\ likes' = r.likes
               /\ Called("like_comment", <<u, None, cm>>, r.ret, r.raised, 0, Absent)
               /\ like_count' = IF r.likes # likes
                                THEN add_like_count(like_count, comments, cm, 1)
                                ELSE like_count
        /\ calls' = calls + 1
        /\ UNCHANGED <<follows, comments>>
        /\ CountFrame

CreateFollow ==
    \E f \in CacheUsers, g \in CacheUsers :
        /\ calls < MaxCacheCalls
        /\ LET r == create_follow(cache, follows, f, g)
           IN  /\ cache' = r.c
               /\ follows' = r.follows
               /\ Called("create_follow", <<f, g>>, r.ret, r.raised, 0, Absent)
        /\ calls' = calls + 1
        /\ UNCHANGED <<likes, comments>>
        /\ CacheFrame

DeleteFollow ==
    \E f \in CacheUsers, g \in CacheUsers :
        /\ calls < MaxCacheCalls
        /\ LET r == delete_follow(cache, follows, f, g)
           IN  /\ cache' = r.c
               /\ follows' = r.follows
               /\ Called("delete_follow", <<f, g>>, r.ret, r.raised, 0, Absent)
        /\ calls' = calls + 1
        /\ UNCHANGED <<likes, comments>>
        /\ CacheFrame

GetFollowerCount ==
    \E g \in CacheUsers :
        /\ calls < MaxCacheCalls
        /\ Called("get_follower_count", <<g>>,
                  get_follower_count(cache, follows, g), FALSE, 0, Absent)
        /\ calls' = calls + 1
        /\ UNCHANGED <<cache, likes, follows, comments>>
        /\ CacheFrame

GetFollowRelationship ==
    \E f \in CacheUsers, g \in CacheUsers :
        /\ calls < MaxCacheCalls
        /\ Called("get_follow_relationship", <<f, g>>,
                  get_follow_relationship(cache, follows, f, g), FALSE, 0, Absent)
        /\ calls' = calls + 1
        /\ UNCHANGED <<cache, likes, follows, comments>>
        /\ CacheFrame

\* SpecFollow: the writes and the reads of the follow service.
NextFollow ==
    \/ RedisStore
    \/ CreateFollow
    \/ DeleteFollow
    \/ GetFollowerCount
    \/ GetFollowRelationship

SpecFollow == Init /\ [][NextFollow]_vars

\* The comment calls record <<comment, author, post, parent>> as arguments.
ServiceCreateComment ==
    \E u \in CacheUsers, p \in Posts, q \in {None} \cup CommentIds :
        /\ calls < MaxCacheCalls
        /\ LET r == CommentService_create_comment(cache, comments, p, u, q)
           IN  /\ cache' = r.c
               /\ comments' = r.cmts
               /\ Called("create_comment", <<r.ret, u, p, q>>, r.ret, r.raised, 0, Absent)
               /\ like_count' =
                     IF r.raised THEN like_count
                     ELSE update_parent_comment_stats(
                              default_like_count(like_count, {r.ret}), r.cmts, q)
        /\ calls' = calls + 1
        /\ UNCHANGED <<likes, follows>>
        /\ CountFrame

UpdateComment ==
    \E cm \in CommentIds :
        /\ calls < MaxCacheCalls
        /\ LET r == update_comment(cache, comments, cm)
               a == get_comment_author(comments, cm)
               x == {y \in comments : y.id = cm}
           IN  /\ cache' = r.c
               /\ comments' = r.cmts
               /\ Called("update_comment",
                         IF x = {} THEN <<cm, None, None, None>>
                         ELSE <<cm, a, (CHOOSE y \in x : TRUE).post_id,
                                (CHOOSE y \in x : TRUE).parent_id>>,
                         r.ret, r.raised, 0, Absent)
        /\ calls' = calls + 1
        /\ UNCHANGED <<likes, follows>>
        /\ CacheFrame

DeleteComment ==
    \E cm \in CommentIds, u \in CacheUsers :
        /\ calls < MaxCacheCalls
        /\ LET r == delete_comment(cache, likes, comments, cm, u)
               a == get_comment_author(comments, cm)
               x == {y \in comments : y.id = cm}
           IN  /\ cache' = r.c
               /\ likes' = r.likes
               /\ comments' = r.cmts
               /\ Called("delete_comment",
                         IF x = {} THEN <<cm, None, None, None>>
                         ELSE <<cm, a, (CHOOSE y \in x : TRUE).post_id,
                                (CHOOSE y \in x : TRUE).parent_id>>,
                         r.ret, r.raised, 0, Absent)
               /\ like_count' =
                     IF r.raised THEN like_count
                     ELSE update_parent_comment_stats(
                              default_like_count(
                                  like_count, {y.id : y \in comments \ r.cmts}),
                              r.cmts, (CHOOSE y \in x : TRUE).parent_id)
        /\ calls' = calls + 1
        /\ UNCHANGED follows
        /\ CountFrame

NextCache ==
    \/ RedisStore
    \/ CreateLike
    \/ DeleteLike
    \/ LikeComment
    \/ CreateFollow
    \/ DeleteFollow
    \/ ServiceCreateComment
    \/ UpdateComment
    \/ DeleteComment

SpecCache == Init /\ [][NextCache]_vars

\* ------------------------------ SpecPages: mutations and cached pages
\* The operations of SpecRead and the like wrapper, with pages in the cache.
\* No operation removes a page key: create_notification and the dedup
\* refresh touch no page key, and the others reach the pages only through
\* delete_pattern, which RedisService does not define.
PagesFrame ==
    UNCHANGED <<notifications, next_id, comments, now, unread_count,
                latest_notifications, ws_pushes, sink_tasks, tasks, likes,
                follows, ws_vars, aux_vars>>

\* A page another client of the Redis server stored under the key, as the
\* cold path computes it from the rows there are.
PageStore ==
    \E u \in Users, a \in PageArgs :
        /\ Cardinality(cache) < MaxCachedKeys
        /\ PageKey(u, a) \notin Present(cache)
        /\ cache' = cache \cup
              {[key |-> PageKey(u, a),
                val |-> Page(notifications, u, a,
                             Cardinality(Unread(notifications, u)))]}
        /\ Called("store", <<u>>, None, FALSE, 0, Absent)
        /\ UNCHANGED calls
        /\ PagesFrame

GetUserNotifications ==
    \E u \in Users, a \in PageArgs :
        /\ calls < MaxReadCalls
        /\ LET r == get_user_notifications(World, cache, u, a)
           IN  Called("get_user_notifications", <<u, a>>, r, FALSE, 0,
                      unread_count[u])
        /\ calls' = calls + 1
        /\ UNCHANGED cache
        /\ PagesFrame

NextPages ==
    \/ PageStore
    \/ CreateSystemNotification
    \/ CreateLikeNotification
    \/ MarkAsRead
    \/ MarkAllAsRead
    \/ DeleteNotification
    \/ DeleteAllNotifications
    \/ GetUserNotifications

SpecPages == Init /\ [][NextPages]_vars

\* SpecSweep: the sweep with the counter reset of mark_all_as_read and
\* cached pages.
NextSweep ==
    \/ PageStore
    \/ CreateSystemNotification
    \/ MarkAllAsRead
    \/ ClockAdvance
    \/ CleanupOldNotifications

SpecSweep == Init /\ [][NextSweep]_vars

\* SpecFrame: every operation that writes a row, on the rows of a like.
FrameUsers == {1, 2}

LikeNotification ==
    \E post \in Posts, liker \in FrameUsers, owner \in FrameUsers :
        /\ calls < MaxReadCalls
        /\ LET r == create_like_notification(World, post, liker, owner, now + 1)
           IN  /\ Apply(r.w)
               /\ Called("create_like_notification", <<post, liker, owner>>, r.ret, FALSE,
                         Cardinality(ExistingLike(notifications, post, liker, owner)),
                         unread_count[owner])
        /\ now' = now + 1
        /\ calls' = calls + 1
        /\ UNCHANGED <<comments, tasks, ws_vars, kv_vars, aux_vars>>

NextFrame ==
    \/ LikeNotification
    \/ CreateSystemNotification
    \/ MarkAsRead
    \/ MarkAllAsRead
    \/ DeleteNotification
    \/ DeleteAllNotifications
    \/ CleanupOldNotifications

SpecFrame == Init /\ [][NextFrame]_vars

\* ============================================================== the claims
\* A step that raises calls is a call; last' is that call.
LikeCall(l) == l.op = "create_like_notification"
FollowCall(l) == l.op = "create_follow_notification"
CommentCall(l) == l.op = "create_comment_notification"
MentionCall(l) == l.op = "create_mention_notification"

\* The value a counter key stands for when an increment is applied to it.
CounterValue(v) == IF v = Absent THEN 0 ELSE v

\* C1: two create_like_notification calls in a row for one (post, liker,
\* owner), liker # owner, the first of which found no row for the key, leave
\* exactly one row for the key, created at the time of the second call, and
\* the owner's cached counter exactly 1 above its value before the first.
C1_LikeTwiceCountsOnce ==
    [][(/\ LikeCall(last) /\ last.dup = 0 /\ last.args[2] # last.args[3]
        /\ LikeCall(last') /\ last'.args = last.args /\ calls' > calls)
       => LET rows == ExistingLike(notifications', last.args[1], last.args[2],
                                   last.args[3])
          IN  /\ Cardinality(rows) = 1
              /\ \A n \in rows : n.created_at = now'
              /\ unread_count'[last.args[3]] = CounterValue(last.before) + 1]_vars

\* C2: every create_follow_notification(A, B), A # B, that starts with at
\* most one follow row from A to B (whatever its related_post) ends with
\* exactly one; the call that inserted it left it unread, raised B's cached
\* counter by one and issued one realtime push for it; a later call changes
\* neither the counter nor the pushes.  From a start with no such row and a
\* counter of 0 this is: one row, counter 1, one push, for any k >= 1 calls.
C2_FollowOnce ==
    [][(FollowCall(last') /\ calls' > calls /\ last'.args[1] # last'.args[2]
        /\ last'.dup <= 1)
       => LET A == last'.args[1]
              B == last'.args[2]
              rows == ExistingFollow(notifications', A, B)
          IN  /\ Cardinality(rows) = 1
              /\ IF last'.dup = 0
                 THEN /\ \A n \in rows : ~n.is_read
                      /\ unread_count'[B] = CounterValue(unread_count[B]) + 1
                      /\ \E n \in rows :
                            ws_pushes' = Append(ws_pushes, [user |-> B, id |-> n.id])
                 ELSE /\ unread_count'[B] = unread_count[B]
                      /\ ws_pushes' = ws_pushes]_vars

\* The rows a row shares its dedup key with: (receiver, sender, type,
\* related_post), and (receiver, sender, type) for a follow.
SameKey(n1, n2) ==
    /\ n1.receiver_id = n2.receiver_id
    /\ n1.sender_id = n2.sender_id
    /\ n1.type = n2.type
    /\ (n1.type = FOLLOW \/ n1.related_post_id = n2.related_post_id)

\* C3: however like, comment and follow producers for one dedup key
\* interleave at their awaits, at most one row exists for the key.
C3_ConcurrentDedup ==
    \A n1 \in notifications, n2 \in notifications :
        SameKey(n1, n2) => n1.id = n2.id

\* C4: at most one row per (receiver, sender, type, related_post).
C4_DedupKeyUnique ==
    \A n1 \in notifications, n2 \in notifications :
        (/\ n1.receiver_id = n2.receiver_id
         /\ n1.sender_id = n2.sender_id
         /\ n1.type = n2.type
         /\ n1.related_post_id = n2.related_post_id) => n1 = n2

\* The self-referential calls of the wrappers.
SelfLike(l) == LikeCall(l) /\ l.args[2] = l.args[3]
SelfFollow(l) == FollowCall(l) /\ l.args[1] = l.args[2]
SelfComment(l) == CommentCall(l) /\ l.args[4] = None /\ l.args[1] = l.args[3]
SelfReply(l) ==
    /\ CommentCall(l)
    /\ l.args[4] # None
    /\ get_comment_author(comments, l.args[4]) = l.args[1]
SelfMention(l) ==
    /\ MentionCall(l)
    /\ l.args[3] # <<>>
    /\ \A i \in 1..Len(l.args[3]) : l.args[3][i] = l.args[2]

\* C5: a self-referential wrapper call creates no row, changes no cached
\* counter or latest list and issues no realtime push; a mention call
\* creates no row whose receiver is the sender.
C5_SelfSuppressed ==
    [][/\ (calls' > calls /\ (\/ SelfLike(last') \/ SelfFollow(last')
                          \/ SelfComment(last') \/ SelfReply(last')
                          \/ SelfMention(last')))
          => (/\ notifications' = notifications
              /\ unread_count' = unread_count
              /\ latest_notifications' = latest_notifications
              /\ ws_pushes' = ws_pushes
              /\ last'.ret = None)
       /\ (calls' > calls /\ MentionCall(last'))
          => \A n \in notifications' \ notifications :
                 n.receiver_id # last'.args[2]]_vars

\* A reply call by the author of the comment replied to has completed, in a
\* state that holds notifications.
C5_Witness ==
    /\ SelfReply(last)
    /\ notifications # {}

\* C6: no row has sender_id equal to receiver_id.
C6_NoSelfNotification ==
    \A n \in notifications : n.sender_id # n.receiver_id

\* C7: a reply by R to a comment of X on a post of Y, with R, X, Y pairwise
\* distinct, posted through the create_comment handler, adds exactly one
\* notification: to X, of type reply.
C7_ReplyNotifiesAuthorOnly ==
    [][(/\ last'.op = "create_comment" /\ calls' > calls
        /\ last'.args[3] # None
        /\ last'.ret = 200
        /\ LET R == last'.args[1]
               X == get_comment_author(comments, last'.args[3])
               Y == PostOwner(last'.args[2])
           IN  R # X /\ R # Y /\ X # Y)
       => LET X == get_comment_author(comments, last'.args[3])
              new == notifications' \ notifications
          IN  /\ Cardinality(new) = 1
              /\ \A n \in new : n.receiver_id = X /\ n.type = REPLY]_vars

\* Every task has completed; the one issued last is mark_all_as_read(u); the
\* others are creates for u, one of which at least inserted a row, and
\* mark_as_read calls of u, on distinct notifications, each of which found
\* its notification unread.
AllDoneMarkAllLast(u) ==
    /\ \A i \in 1..Len(tasks) : tasks[i].pc = "done"
    /\ \E i \in 1..Len(tasks) : tasks[i].op \in Producers /\ tasks[i].loc # None
    /\ tasks[Len(tasks)].op = "mark_all_as_read"
    /\ tasks[Len(tasks)].args[1] = u
    /\ \A i \in 1..(Len(tasks) - 1) :
          \/ tasks[i].op \in Producers /\ TaskReceiver(tasks[i]) = u
          \/ /\ tasks[i].op = "mark_as_read"
             /\ tasks[i].args[2] = u
             /\ tasks[i].loc # None
             /\ \A j \in 1..(Len(tasks) - 1) :
                   (j # i /\ tasks[j].op = "mark_as_read")
                       => tasks[j].args[1] # tasks[i].args[1]

\* C8: once creates and mark_as_read calls for a user, interleaved in any
\* way, and a mark_all_as_read issued after them have all completed, the
\* user's cached unread counter is 0.
C8_CounterZeroAfterMarkAll ==
    \A u \in Users : AllDoneMarkAllLast(u) => unread_count[u] = 0

\* C9: a cached unread counter, when present, equals the number of unread
\* rows of its user.
C9_CounterAgrees ==
    \A u \in Users :
        unread_count[u] # Absent
            => unread_count[u] = Cardinality(Unread(notifications, u))

\* C10: mark_as_read on a notification of the caller that is already read
\* returns it and changes nothing: the rows (is_read and read_at included),
\* the counter and the other caches stay as they were.
C10_MarkReadAgainNoOp ==
    [][(/\ last'.op = "mark_as_read" /\ calls' > calls
        /\ \E n \in notifications :
              n.id = last'.args[1] /\ n.receiver_id = last'.args[2] /\ n.is_read)
       => (/\ last'.ret = last'.args[1]
           /\ notifications' = notifications
           /\ unread_count' = unread_count
           /\ latest_notifications' = latest_notifications)]_vars

\* mark_as_read has returned a notification that was read at an earlier time.
C10_Witness ==
    /\ last.op = "mark_as_read"
    /\ last.ret # None
    /\ \E n \in notifications :
          n.id = last.ret /\ n.is_read /\ n.read_at < now

\* C11: mark_as_read and delete_notification called with an id that no row
\* has, or that a row of another receiver has, return None / False and
\* leave the rows, the unread counters and the latest lists as they were.
C11_NotOwnedUntouched ==
    [][(/\ calls' > calls
        /\ last'.op \in {"mark_as_read", "delete_notification"}
        /\ ~\E n \in notifications :
               n.id = last'.args[1] /\ n.receiver_id = last'.args[2])
       => (/\ last'.ret = (IF last'.op = "mark_as_read" THEN None ELSE FALSE)
           /\ notifications' = notifications
           /\ unread_count' = unread_count
           /\ latest_notifications' = latest_notifications)]_vars

\* mark_as_read has been called, and has returned None, for the id of an
\* unread notification that another user received.
C11_Witness ==
    /\ last.op = "mark_as_read"
    /\ last.ret = None
    /\ \E n \in notifications :
          n.id = last.args[1] /\ n.receiver_id # last.args[2] /\ ~n.is_read

\* C12: delete_notification on a notification of the caller removes the row
\* and lowers the caller's cached counter by one when the row was unread,
\* and leaves the counter alone when it was read.
C12_DeleteDecrementsUnread ==
    [][(/\ calls' > calls
        /\ last'.op = "delete_notification"
        /\ \E n \in notifications :
              n.id = last'.args[1] /\ n.receiver_id = last'.args[2])
       => LET u == last'.args[2]
              n == CHOOSE n \in notifications :
                      n.id = last'.args[1] /\ n.receiver_id = u
          IN  /\ notifications' = notifications \ {n}
              /\ CounterValue(unread_count'[u]) =
                    CounterValue(unread_count[u]) - (IF n.is_read THEN 0 ELSE 1)]_vars

\* C13: a mark_all_as_read call that completes without an exception leaves
\* the user's cached counter at 0, whatever number of rows it updated.
C13_MarkAllResetsCounter ==
    [][(calls' > calls /\ last'.op = "mark_all_as_read" /\ ~last'.raised)
       => unread_count'[last'.args[1]] = 0]_vars

\* C14: a delete_all_notifications call that completes without an exception
\* leaves neither the user's counter key nor the user's latest list with a
\* value, whether or not the user had rows.
C14_DeleteAllClearsCaches ==
    [][(calls' > calls /\ last'.op = "delete_all_notifications" /\ ~last'.raised)
       => /\ unread_count'[last'.args[1]] = Absent
          /\ latest_notifications'[last'.args[1]] = <<>>]_vars

C16_LatestNewestFirst ==
    [][(/\ calls' > calls
        /\ last'.op = "get_latest_notifications"
        /\ last'.args[2] = LatestKeep)
       => last'.ret = LatestRows(notifications, last'.args[1], LatestKeep)]_vars

\* C17: when a notification for a user is created, its realtime envelope is
\* sent to every channel the user has registered through
\* subscribe_to_notifications and not yet unregistered.
C17_RealtimeReachesSubscribers ==
    [][(/\ calls' > calls
        /\ last'.op = "create_notification"
        /\ notifications' # notifications)
       => \A n \in notifications' \ notifications :
             \A c \in OpenChannels(managers, n.receiver_id) :
                 [chan |-> c, id |-> n.id] \in realtime']_vars

\* The channels of a send whose awaited send_text did not return.
Failing(tk) == {c \in tk.snap : tk.results[c] # RETURNED_TRUE}

\* C18: when send_personal_notification, for a user whose channel set did
\* not change during the sends, has handled the results, exactly the
\* channels whose send failed have been removed from the user's set and
\* get_total_connections_count has dropped by their number.
C18_FailedChannelsEvicted ==
    [][\A i \in 1..Len(ws_tasks) :
          (/\ i <= Len(ws_tasks')
           /\ ws_tasks[i].op = "send_personal_notification"
           /\ ws_tasks[i].pc = "evict"
           /\ ws_tasks'[i].pc = "done"
           /\ ws_tasks[i].user \in DOMAIN active_connections
           /\ active_connections[ws_tasks[i].user].id = ws_tasks[i].obj
           /\ active_connections[ws_tasks[i].user].chans = ws_tasks[i].snap)
          => LET tk == ws_tasks[i]
             IN  /\ Connections(active_connections', tk.user) = tk.snap \ Failing(tk)
                 /\ get_total_connections_count(active_connections') =
                       get_total_connections_count(active_connections)
                           - Cardinality(Failing(tk))]_vars

\* C19: every user id that is a key of active_connections maps to a set
\* that is not empty.
C19_NoEmptyEntries ==
    \A u \in DOMAIN active_connections : active_connections[u].chans # {}

\* C20: under any interleaving of connect and disconnect calls the set
\* tracked for a user holds exactly the channels whose connect ran after
\* any disconnect of theirs, and a user without such a channel has no entry.
C20_RegistryExact ==
    \A u \in WsUsers :
        /\ Connections(active_connections, u) =
              {c \in Channels : ws_log[u][c] = "connect"}
        /\ u \in DOMAIN active_connections => active_connections[u].chans # {}

\* A user's only channel has been connected and then disconnected, which
\* removed the user's entry, while the other user keeps a channel.
C20_Witness ==
    \E u \in WsUsers, v \in WsUsers, c \in Channels, d \in Channels :
        /\ u # v /\ c # d
        /\ ws_log[u][c] = "disconnect"
        /\ \E i \in 1..Len(ws_tasks) :
              /\ ws_tasks[i].op = "connect" /\ ws_tasks[i].pc = "done"
              /\ ws_tasks[i].user = u /\ ws_tasks[i].chan = c
        /\ u \notin DOMAIN active_connections
        /\ ws_log[v][d] = "connect"


\* ---------------------------------------------------------------- C21
\* C21: broadcast_notification(payload, exclude_users) attempts one send
\* to every channel of every user registered when the call runs whose id
\* is not in exclude_users and none to a channel of an excluded user; and
\* every attempted send runs to an outcome, whatever the other sends did.
C21_BroadcastTargets ==
    [][\A i \in 1..Len(ws_tasks) :
          LET tk == ws_tasks[i]
          IN  /\ ( /\ i <= Len(ws_tasks')
                   /\ tk.op = "broadcast_notification"
                   /\ tk.pc = "start"
                   /\ ws_tasks'[i].pc # "start" )
                 => /\ \A u \in WsUsers : \A c \in Channels :
                        <<u, c>> \in ws_tasks'[i].snap
                          <=> /\ u \in DOMAIN active_connections
                              /\ c \in active_connections[u].chans
                              /\ u \notin tk.excl
                    /\ ws_tasks'[i].snap \subseteq WsUsers \X Channels
              /\ ( /\ i <= Len(ws_tasks')
                   /\ tk.op = "broadcast_notification"
                   /\ tk.pc = "gather"
                   /\ ws_tasks'[i].pc = "done" )
                 => /\ DOMAIN ws_tasks'[i].results = tk.snap
                    /\ \A s \in tk.snap :
                          ws_tasks'[i].results[s]
                             \in {RETURNED_TRUE, RETURNED_FALSE, RAISED}
    ]_vars

\* A finished broadcast that excluded user 2 while user 2 was registered,
\* in which one send succeeded and another one failed.
C21_Witness ==
    \E i \in 1..Len(ws_tasks) :
        LET tk == ws_tasks[i]
        IN  /\ tk.op = "broadcast_notification"
            /\ tk.pc = "done"
            /\ tk.excl = {2}
            /\ 2 \in DOMAIN active_connections
            /\ active_connections[2].chans # {}
            /\ \E s1, s2 \in tk.snap :
                  /\ tk.results[s1] = RETURNED_TRUE
                  /\ tk.results[s2] # RETURNED_TRUE

\* ---------------------------------------------------------------- C22
\* C22: a call of create_notification or of a creation wrapper that
\* committed a new row does not raise and returns the created
\* notification, whatever a later step (list push, counter increment,
\* realtime send, email or push enqueue) did.
C22_DownstreamIsolation ==
    [][( /\ calls' > calls
         /\ last'.op \in {"create_notification", "create_like_notification",
                          "create_follow_notification",
                          "create_comment_notification"}
         /\ next_id' = next_id + 1
         /\ \E n \in notifications' : n.id = next_id )
       => /\ ~last'.raised
          /\ last'.ret = next_id]_vars

\* ---------------------------------------------------------------- C23
\* C23: a cache operation that fails is never fatal to a read: a
\* get_unread_count call that finds no cached counter, and so has to
\* recount and store, returns the number of the user's unread rows in the
\* durable store.
C23_UnreadCountFallsBack ==
    [][( /\ calls' > calls
         /\ last'.op = "get_unread_count"
         /\ last'.before = Absent )
       => last'.ret = Cardinality(Unread(notifications, last'.args[1]))]_vars

\* ---------------------------------------------------------------- C24
\* The keys a like or unlike by user u must leave absent: the target's
\* like counter and like lists (and a post's like stats), u's like lists and
\* like counters, every trending-posts and recent-likes key.
LikeStale(u, p, cm) ==
    (IF p # None
     THEN {K("post", p, "like_count", None, FALSE), K("post", p, "likes", None, TRUE),
           K("post", p, "like_stats", None, FALSE)}
     ELSE {K("comment", cm, "like_count", None, FALSE),
           K("comment", cm, "likes", None, TRUE)})
    \cup {K("user", u, "likes", None, TRUE), K("user", u, "like_count", None, TRUE),
          K("trending_posts", None, "", None, TRUE),
          K("recent_likes", None, "", None, TRUE)}

FollowStale(f, g) ==
    {K("follow", f, "", g, FALSE), K("follow", g, "", f, FALSE)}
    \cup {K("user", x, it, None, FALSE) :
             x \in {f, g}, it \in {"follower_count", "following_count", "follow_stats"}}
    \cup {K("user", x, it, None, TRUE) :
             x \in {f, g}, it \in {"followers", "following", "follow_suggestions"}}
    \cup {k \in AllKeys : /\ k.ns \in {"mutual", "mutual_count"}
                          /\ (k.id \in {f, g} \/ k.ref \in {f, g})}

CommentStale(cm, a, p, q) ==
    {K("comment", cm, "user", None, TRUE), K("comment", cm, "stats", None, FALSE),
     K("comment", cm, "replies", None, TRUE),
     K("post", p, "comments", None, TRUE), K("post", p, "comment_count", None, FALSE),
     K("post", p, "comment_stats", None, FALSE), K("post", p, "comment_tree", None, TRUE),
     K("user", a, "comments", None, TRUE)}
    \cup (IF q # None THEN {K("comment", q, "replies", None, TRUE)} ELSE {})

C27_CleanupHonoursDays ==
    [][( /\ calls' > calls
         /\ last'.op = "cleanup_old_notifications" )
       => notifications' =
              {n \in notifications :
                  n.created_at >= now - last'.args[1] * DayTicks}
    ]_vars

\* ---------------------------------------------------------------- C28
\* C28: the side effects of a creation come in the order commit, cache
\* updates, realtime push, task enqueue: whenever a realtime push for a
\* notification is issued, the notification is in its receiver's latest
\* list and the receiver's unread counter has been incremented.
C28_PushAfterCacheUpdates ==
    [][Len(ws_pushes') > Len(ws_pushes)
       => LET push == ws_pushes'[Len(ws_pushes')]
          IN  /\ \E i \in 1..Len(latest_notifications'[push.user]) :
                    latest_notifications'[push.user][i] = push.id
              /\ unread_count'[push.user] # Absent
              /\ unread_count'[push.user] >= 1
    ]_vars

\* ---------------------------------------------------------------- C29
\* C29: a create_notification call whose insert does not commit issues no
\* realtime push, leaves every latest list and every unread counter as
\* they were, and enqueues no email or push task.
C29_NoSideEffectWithoutCommit ==
    [][( /\ calls' > calls
         /\ last'.op = "create_notification"
         /\ notifications' = notifications )
       => /\ ws_pushes' = ws_pushes
          /\ latest_notifications' = latest_notifications
          /\ unread_count' = unread_count
          /\ sink_tasks' = sink_tasks
    ]_vars

\* A call whose commit failed, after a call whose commit went through and
\* that issued its realtime push: the failed call added no push.
C29_Witness ==
    /\ last.op = "create_notification"
    /\ Len(last.args) = 5
    /\ ~last.args[5]
    /\ last.raised
    /\ Cardinality(notifications) = 1
    /\ Len(ws_pushes) = 1
    /\ calls = 2

\* ---------------------------------------------------------------- C30
\* C30: whenever create_notification ends by raising, at whatever step of
\* its try block, the durable store holds no row for that call afterwards.
C30_RaiseLeavesNoRow ==
    [][( /\ calls' > calls
         /\ last'.op = "create_notification"
         /\ last'.raised )
       => notifications' = notifications
    ]_vars


\* C32: lock discipline.  Every step that changes active_connections (the
\* insert of connect, the removal of disconnect, the eviction after a failed
\* send) is taken by the task that holds the manager's lock, and no task
\* awaits a channel (accept or send) while it holds the lock.
C32_LockDiscipline ==
    [][/\ active_connections' # active_connections =>
              /\ lock # None
              /\ lock' = lock
              /\ ws_tasks'[lock].pc # ws_tasks[lock].pc
       /\ \A i \in 1..Len(ws_tasks) :
              (/\ Len(ws_tasks') = Len(ws_tasks)
               /\ ws_tasks'[i].pc # ws_tasks[i].pc
               /\ Awaits(ws_tasks[i].op, ws_tasks[i].pc)) => lock # i]_vars

\* A send evicted a channel and another call holds the lock.
C32_Witness ==
    /\ lock # None
    /\ \E i \in 1..Len(ws_tasks) :
          /\ ws_tasks[i].op = "send_personal_notification"
          /\ ws_tasks[i].pc = "done"
          /\ ws_tasks[i].evicted # {}
          /\ lock # i


\* C33: bounded realtime send.  Every call of send_personal_notification
\* comes to its end, also when one of the channels never completes its
\* send.
C33_SendTerminates ==
    \A i \in 1..MaxStallTasks :
        (/\ Len(ws_tasks) >= i
         /\ ws_tasks[i].op = "send_personal_notification")
        ~> (/\ Len(ws_tasks) >= i
            /\ ws_tasks[i].pc = "done")

\* The calls all of whose sends complete come to their end.
CompletedSendsTerminate ==
    \A i \in 1..MaxStallTasks :
        (/\ Len(ws_tasks) >= i
         /\ ws_tasks[i].op = "send_personal_notification")
        ~> (/\ Len(ws_tasks) >= i
            /\ \/ ws_tasks[i].pc = "done"
               \/ /\ ws_tasks[i].pc = "await"
                  /\ \E c \in ws_tasks[i].snap : ws_tasks[i].results[c] = NEVER)


\* A follow or unfollow has just returned success.
FollowWritten ==
    /\ ~last.raised
    /\ \/ last.op = "create_follow"
       \/ last.op = "delete_follow" /\ last.ret

\* C34: no stale read after a successful write.  A read of the follower
\* count of G or of the relationship (F, G) that follows a successful
\* create_follow(F, G) or delete_follow(F, G) returns the value of the
\* durable store.
C34_ReadAfterWrite ==
    [][FollowWritten =>
         /\ (last'.op = "get_follower_count" /\ last'.args = <<last.args[2]>>)
               => last'.ret = Cardinality({p \in follows : p[2] = last.args[2]})
         /\ (last'.op = "get_follow_relationship" /\ last'.args = last.args)
               => last'.ret = follows \cap {last.args}]_vars


\* The user whose notifications the call that completed last worked on, for
\* the calls that change rows; None for every other call.
MutatedUser ==
    CASE last.op = "create_notification" -> last.args[1]
      [] last.op = "create_like_notification" -> last.args[3]
      [] last.op \in {"mark_as_read", "delete_notification"} -> last.args[2]
      [] last.op \in {"mark_all_as_read", "delete_all_notifications"} -> last.args[1]
      [] OTHER -> None

C36_SweepClearsCaches ==
    [][(last'.op = "cleanup_old_notifications" /\ calls' # calls) =>
          \A u \in Users :
              (\E n \in notifications \ notifications' : n.receiver_id = u) =>
                  /\ \A e \in cache' : e.key.user # u
                  /\ latest_notifications'[u] = <<>>
                  /\ unread_count'[u] # Absent =>
                        unread_count'[u] = Cardinality(Unread(notifications', u))]_vars

\* The counter part alone.
SweepKeepsCounter ==
    [][(last'.op = "cleanup_old_notifications" /\ calls' # calls) =>
          \A u \in Users :
              (\E n \in notifications \ notifications' : n.receiver_id = u) =>
                  (unread_count'[u] # Absent =>
                        unread_count'[u] = Cardinality(Unread(notifications', u)))]_vars


\* C37: notification frame.  A row that stays keeps its id, receiver_id,
\* sender_id, type, content and related_post_id; is_read only goes from
\* false to true, with read_at set, in mark_as_read and mark_all_as_read;
\* read_at changes only then; created_at changes only in a dedup hit, which
\* leaves is_read and read_at as they were.
C37_RowFrame ==
    [][\A n \in notifications : \A m \in notifications' :
          m.id = n.id =>
              /\ m.receiver_id = n.receiver_id
              /\ m.sender_id = n.sender_id
              /\ m.type = n.type
              /\ m.content = n.content
              /\ m.related_post_id = n.related_post_id
              /\ n.is_read => m.is_read
              /\ m.is_read # n.is_read =>
                    /\ m.read_at # None
                    /\ last'.op \in {"mark_as_read", "mark_all_as_read"}
              /\ m.read_at # n.read_at => m.is_read # n.is_read
              /\ m.created_at # n.created_at =>
                    /\ last'.op = "create_like_notification"
                    /\ last'.dup = 1
                    /\ m.is_read = n.is_read
                    /\ m.read_at = n.read_at]_vars

\* A row that was marked read and whose created_at a dedup hit refreshed
\* afterwards.
C37_Witness ==
    /\ last.op = "create_like_notification"
    /\ last.dup = 1
    /\ \E n \in notifications :
          /\ n.id = last.ret
          /\ n.is_read
          /\ n.read_at # None
          /\ n.created_at > n.read_at


\* The tasks whose decrement of the counter took effect, per notification.
Decrements(id) ==
    {i \in 1..Len(tasks) : tasks[i].decr /\ tasks[i].args[1] = id}

C39_EvictsOwnFailures ==
    \A i \in 1..Len(ws_tasks) :
        LET tk == ws_tasks[i]
        IN  (tk.op = "send_personal_notification" /\ tk.pc = "done") =>
                \A c \in tk.evicted : c \in tk.snap /\ tk.results[c] = RAISED


\* C40: comment like counter.  The stored like_count of every comment is
\* the number of Like rows of that comment, after any sequence of likes,
\* unlikes and creations and deletions of comments and replies.
C40_LikeCountIsLikes ==
    \A x \in comments :
        x.id \in DOMAIN like_count =>
            like_count[x.id] = Cardinality({l \in likes : l.comment_id = x.id})

\* Creating or deleting a reply leaves the like_count of its parent as it
\* was.
ReplyKeepsParentCount ==
    [][\A x \in comments :
          (/\ last'.op \in {"create_comment", "delete_comment"}
           /\ last'.args[4] = x.id
           /\ x \in comments'
           /\ x.id \in DOMAIN like_count)
          => like_count'[x.id] = like_count[x.id]]_vars

====
